---- MODULE Spec2Model ----
(***************************************************************************)
(* Event routing and plugin orchestration of github-workflow-as-kube:      *)
(* EventValidator, PluginRegistry, EventHandlers (fan-out engine) and      *)
(* EventDispatcher (demultiplexer).                                        *)
(*                                                                         *)
(* One behaviour is either one run of EventDispatcher.dispatch() on a      *)
(* fresh dispatcher, or a caller that builds a PluginRegistry through      *)
(* register() and then calls one of the EventHandlers.handle*Event         *)
(* methods directly.                                                       *)
(***************************************************************************)
EXTENDS Integers, Sequences, FiniteSets, TLC

(***************************************************************************)
(* Bounds                                                                  *)
(***************************************************************************)
\* number of distinct plugin names a direct caller may register
NumTestPlugins == 2

\* number of getOutputs() results a caller of an agent holds on to
MaxSnapshots == 2

\* number of lines of a comment body
MaxLines == 2

\* number of settled promises handed to the fold
MaxSettled == 2

\* number of commits of a pull request
MaxCommits == 2

\* number of files of a pull request
MaxFiles == 2

(***************************************************************************)
(* Values                                                                  *)
(***************************************************************************)
\* the handler-category tags of PluginHandlers that the registry indexes
Categories == {"issue", "issueComment", "pullRequest", "push", "review", "genericComment"}

\* Plugin.config: absent, { enabled: true } or { enabled: false }
Configs == {"absent", "true", "false"}

\* handler maps of the plugins that exist in the repository
PluginHandlers ==
  [n \in {"assign", "cat", "dog", "help", "hold", "merge-commit-blocker",
          "pony", "shrug", "size", "stage", "wip", "yuks", "lgtm", "approve"} |->
     CASE n \in {"merge-commit-blocker", "size", "wip"} -> {"pullRequest"}
       [] n \in {"lgtm", "approve"} -> {"genericComment", "pullRequest"}
       [] OTHER -> {"genericComment"}]

\* the list of registerBuiltInPlugins, in its order
BuiltInPlugins ==
  <<"assign", "cat", "dog", "help", "hold", "merge-commit-blocker",
    "pony", "shrug", "size", "stage", "wip", "yuks">>

\* plugins a direct caller of the registry registers (as the registry tests do)
TestNames == <<"test-plugin-1", "test-plugin-2", "test-plugin-3", "test-plugin-4">>

TestHandlerMaps ==
  { {"issue", "push", "review"},
    {"issueComment", "pullRequest", "genericComment"} }

TestPlugins ==
  [name : {TestNames[i] : i \in 1..NumTestPlugins},
   handlers : TestHandlerMaps,
   config : Configs]

\* what a key of the raw payload holds: the key is absent, null, a scalar
\* (string, number, boolean) or a structured object
Kinds == {"absent", "null", "scalar", "object"}

PayloadKeys == {"repository", "issue", "pull_request", "comment", "review"}

\* github.context.payload: null, a scalar, or an object with some keys
ObjectPayloads == [kind : {"object"}, keys : [PayloadKeys -> Kinds]]

NoKeys == [k \in PayloadKeys |-> "absent"]

\* the payload before dispatch() has read it
NoPayload == [kind |-> "unread", keys |-> NoKeys]

Payloads == ObjectPayloads \cup {[kind |-> "null", keys |-> NoKeys], [kind |-> "scalar", keys |-> NoKeys]}

\* github.context.eventName
EventNames == {"issues", "issue_comment", "pull_request", "pull_request_review",
               "pull_request_review_comment", "push", "deployment"}

\* the 'plugins' input, as the segments between its commas; <<"">> is the
\* empty string (input not supplied) and <<"", "">> is a single comma
PluginInputs ==
  { <<"">>, <<"dog", " size ">>, <<"size", "", "wip">>, <<"lgtm", "dog">>, <<"", "">> }

\* the 'github-token' input
TokenInputs == {"missing", "present"}

\* process.env.GITHUB_TOKEN when the process starts: not set, or set by the
\* workflow to some value ("stale"); "set" is the value of the github-token
\* input once dispatch has written it
EnvTokens == {"unset", "stale"}

\* HandlerResult values a handler returns
Returns ==
  { [success |-> TRUE, tookAction |-> TRUE, message |-> "<undefined>"],
    [success |-> FALSE, tookAction |-> FALSE, message |-> "declined"] }

\* values a handler throws: an Error with a message, or a value that is not
\* an instance of Error (a string, or an object with a message property)
Thrown == [isError : BOOLEAN, message : {"boom"}]

\* every plugin name that occurs
AllNames == (DOMAIN PluginHandlers) \cup {TestNames[i] : i \in 1..Len(TestNames)}

\* Map.get of a key that is not in the map: undefined
NotFound == [name |-> "<undefined>", handlers |-> {}, config |-> "absent"]

\* names and values a plugin passes to PluginAgent.setOutput
OutputNames == {"key1", "key2"}
OutputValues == {"value1", "value2"}

\* a property an object does not have
Unset == "<unset>"

\* the object literal {}
EmptyObject == [n \in OutputNames |-> Unset]

\* messages a plugin passes to PluginAgent.setFailed
FailureMessages == {"", "Error message"}

\* the value of a field that was never assigned
Undefined == "<undefined>"

NoResult == [success |-> FALSE, tookAction |-> FALSE, message |-> "<no result>"]
NoThrown == [isError |-> FALSE, message |-> "<nothing thrown>"]

\* the registry's caller has made no query yet; 'at' is the history of
\* the registry as it was when the query was made
NoView == [query |-> "none", result |-> <<>>, at |-> <<>>]

\* the stage labels, in the order of STAGE_LABELS
STAGE_LABELS == <<"stage/alpha", "stage/beta", "stage/stable">>

StageLabelSet == {STAGE_LABELS[i] : i \in 1..Len(STAGE_LABELS)}

\* (alpha|beta|stable) of stageRe
StageNames == {"alpha", "beta", "stable"}

\* a line of a comment body: one that stageRe matches, as /stage <name> or
\* /remove-stage <name>, or any other text
CommentLines ==
  [cmd : {"stage", "remove-stage"}, name : StageNames] \cup {[cmd |-> "text", name |-> "none"]}

\* comment bodies of up to MaxLines lines; <<>> is the empty string
Bodies == UNION { [1..n -> CommentLines] : n \in 0..MaxLines }

NoStageResult == [success |-> FALSE, tookAction |-> FALSE, message |-> "<no result>"]

\* the handler of the stage plugin has not been called
StageIdle ==
  [pc |-> "idle", matches |-> <<>>, issue |-> {}, labels |-> {}, next |-> 1,
   ops |-> <<>>, tookAction |-> FALSE, result |-> NoStageResult,
   agent |-> [outputs |-> {}, actionTaken |-> FALSE, failureMessage |-> Undefined]]

\* a review or comment body, by what approveRe and approveCancelRe find in
\* it: no body, a line /approve, a line /approve cancel, or neither
ApproveBodies == {"absent", "approve", "cancel", "text"}

\* payload.review.state
ReviewStates == {"approved", "changes_requested", "commented"}

\* the handler of the approve plugin has not been called
ApproveIdle ==
  [pc |-> "idle", path |-> "none", collaborator |-> FALSE, author |-> FALSE,
   want |-> FALSE, checked |-> FALSE, labelled |-> FALSE, added |-> FALSE,
   commented |-> FALSE, result |-> NoStageResult,
   agent |-> [outputs |-> {}, actionTaken |-> FALSE, failureMessage |-> Undefined]]

\* the labels of the pull-request plugins and a label of none of them
MERGE_COMMITS_LABEL == "do-not-merge/contains-merge-commits"
WIP_LABEL == "do-not-merge/work-in-progress"
OtherLabel == "kind/bug"

\* the size labels, in the order of the enum Size
SIZE_LABELS == <<"size/XS", "size/S", "size/M", "size/L", "size/XL", "size/XXL">>

SizeLabelSet == {SIZE_LABELS[i] : i \in 1..Len(SIZE_LABELS)}

\* payload.action of a pull_request event; "absent" is a payload without one
PullActions ==
  {"absent", "opened", "reopened", "synchronize", "edited", "ready_for_review",
   "converted_to_draft", "closed"}

\* the labels a pull request can carry, in the order GitHub lists them
PULL_LABELS == SIZE_LABELS \o <<MERGE_COMMITS_LABEL, WIP_LABEL, OtherLabel>>

\* no pull request event has been delivered; 'labels' are the labels on
\* GitHub and 'initial' those at the delivery, 'commits' the parent counts
\* of the commits, 'files' the changed lines of the files, and 'wip' is
\* draft || titleRegex.test(title)
NoPull ==
  [action |-> "absent", token |-> FALSE, labels |-> {}, initial |-> {},
   commits |-> <<>>, files |-> <<>>, wip |-> FALSE]

\* the handler of the merge-commit-blocker plugin has not been called
BlockerIdle ==
  [pc |-> "idle", relevant |-> FALSE, commits |-> <<>>, next |-> 1, exist |-> FALSE,
   read |-> FALSE, labels |-> {}, plan |-> <<>>, calls |-> <<>>, result |-> NoStageResult,
   agent |-> [outputs |-> {}, actionTaken |-> FALSE, failureMessage |-> Undefined]]

\* the handler of the size plugin has not been called
SizeIdle ==
  [pc |-> "idle", relevant |-> FALSE, total |-> 0, newLabel |-> "none", read |-> FALSE,
   labels |-> {}, plan |-> <<>>, todo |-> <<>>, calls |-> <<>>, result |-> NoStageResult,
   agent |-> [outputs |-> {}, actionTaken |-> FALSE, failureMessage |-> Undefined]]

\* the handler of the wip plugin has not been called
WipIdle ==
  [pc |-> "idle", relevant |-> FALSE, read |-> FALSE, labels |-> {}, plan |-> <<>>,
   calls |-> <<>>, result |-> NoStageResult,
   agent |-> [outputs |-> {}, actionTaken |-> FALSE, failureMessage |-> Undefined]]

\* the handler of the pony plugin has not been called
PonyIdle ==
  [pc |-> "idle", matches |-> <<>>, next |-> 1, built |-> 0, tagsSpecified |-> FALSE,
   result |-> NoStageResult,
   agent |-> [outputs |-> {}, actionTaken |-> FALSE, failureMessage |-> Undefined]]

\* the handler of the assign plugin has not been called
AssignIdle ==
  [pc |-> "idle", ops |-> <<>>, reviewers |-> <<>>, assignTookAction |-> FALSE,
   ccTookAction |-> FALSE, result |-> NoStageResult,
   agent |-> [outputs |-> {}, actionTaken |-> FALSE, failureMessage |-> Undefined]]

VARIABLES
  pc,            \* position of the caller
  caller,        \* "none", "dispatch" (EventDispatcher.dispatch) or "direct"
  tokenInput,    \* core.getInput('github-token')
  pluginsInput,  \* core.getInput('plugins')
  envToken,      \* process.env.GITHUB_TOKEN
  eventName,     \* context.eventName
  payload,       \* github.context.payload
  registry,      \* PluginRegistry.plugins, in insertion order
  enabledPlugins,\* local of dispatch()
  todo,          \* handler categories demuxEvent has still to call
  called,        \* handle*Event methods called so far, by category
  handlers,      \* local 'handlers' of the running handle*Event
  inv,           \* per started handler: what the handler did
  promises,      \* the promises of the mapped callbacks
  returned,      \* the running handle*Event has returned
  resultMap,     \* the map it returned
  invocations,   \* every handler invocation so far: <<category, plugin name>>
  escaped,       \* an exception has left a handle*Event method
  outputs,       \* core.setOutput calls
  failure,       \* core.setFailed message, or "<none>"
  lastReg,       \* history: per name, the plugin last passed to register()
  agents,        \* the PluginAgentImpl objects created so far
  objects,       \* the objects held in 'outputs' fields or returned by getOutputs()
  held,          \* the maps a caller got from getOutputs(), with what it expects in them
  hist,          \* history: per agent created, the calls made on it
  view,          \* what a caller of the registry got from its last query
  stage,         \* one invocation of the stage plugin's genericComment handler
  approve,       \* one invocation of the approve plugin's genericComment handler
  pull,          \* a pull request on GitHub and the event and environment of its handlers
  blocker,       \* one invocation of the merge-commit-blocker plugin's pullRequest handler
  size,          \* one invocation of the size plugin's pullRequest handler
  wip,           \* one invocation of the wip plugin's pullRequest handler
  pony,          \* one invocation of the pony plugin's genericComment handler
  assign         \* one invocation of the assign plugin's genericComment handler

vars == <<pc, caller, tokenInput, pluginsInput, envToken, eventName, payload,
          registry, enabledPlugins, todo, called, handlers, inv, promises,
          returned, resultMap, invocations, escaped, outputs, failure,
          lastReg, agents, objects, held, hist, view, stage, approve,
          pull, blocker, size, wip, pony, assign>>

inputVars == <<tokenInput, pluginsInput, eventName, payload>>
fanoutVars == <<todo, called, handlers, inv, promises, returned, resultMap, invocations, escaped>>
agentVars == <<agents, objects, held, hist>>
prVars == <<pull, blocker, size, wip>>
replyVars == <<pony, assign>>
pluginVars == <<stage, approve, prVars, replyVars>>
hostVars == <<pc, caller, inputVars, envToken, registry, enabledPlugins, fanoutVars,
              outputs, failure, lastReg, view, agentVars>>
programVars == <<pc, caller, inputVars, envToken, registry, enabledPlugins, fanoutVars,
                 outputs, failure, lastReg, view, pluginVars>>
exceptStage == <<hostVars, approve, prVars, replyVars>>
exceptApprove == <<hostVars, stage, prVars, replyVars>>
exceptBlocker == <<hostVars, stage, approve, size, wip, replyVars>>
exceptSize == <<hostVars, stage, approve, blocker, wip, replyVars>>
exceptWip == <<hostVars, stage, approve, blocker, size, replyVars>>
exceptPony == <<hostVars, stage, approve, prVars, assign>>
exceptAssign == <<hostVars, stage, approve, prVars, pony>>

NoFailure == "<none>"
NoOutputs == [n \in {} |-> ""]
NoMap == [n \in {} |-> NoResult]

(***************************************************************************)
(* EventValidator                                                          *)
(***************************************************************************)
\* typeof v, for what a payload or a key of it holds
TypeOf(v) ==
  CASE v = "object" -> "object"
    [] v = "null" -> "object"
    [] v = "scalar" -> "string"
    [] OTHER -> "undefined"

\* 'key' in payload
In(p, key) == p.keys[key] # "absent"

\* variant: typeof payload === 'object' without the null check
isValidEventTypeofOnly(p) == TypeOf(p.kind) = "object"

\* typeof payload === 'object' && payload !== null
isValidEvent(p) == TypeOf(p.kind) = "object" /\ p.kind # "null"

hasRepository(p) ==
  /\ In(p, "repository")
  /\ TypeOf(p.keys["repository"]) = "object"
  /\ p.keys["repository"] # "null"

\* variant: 'issue' in payload is the whole test
hasIssueInOnly(p) == In(p, "issue")

hasIssue(p) ==
  /\ In(p, "issue")
  /\ TypeOf(p.keys["issue"]) = "object"
  /\ p.keys["issue"] # "null"

\* variant: typeof payload.pull_request === 'object' without the null check
hasPullRequestTypeofOnly(p) ==
  In(p, "pull_request") /\ TypeOf(p.keys["pull_request"]) = "object"

hasPullRequest(p) ==
  /\ In(p, "pull_request")
  /\ TypeOf(p.keys["pull_request"]) = "object"
  /\ p.keys["pull_request"] # "null"

hasComment(p) ==
  /\ In(p, "comment")
  /\ TypeOf(p.keys["comment"]) = "object"
  /\ p.keys["comment"] # "null"

hasReview(p) ==
  /\ In(p, "review")
  /\ TypeOf(p.keys["review"]) = "object"
  /\ p.keys["review"] # "null"

(***************************************************************************)
(* PluginRegistry                                                          *)
(***************************************************************************)
IndexOf(reg, name) ==
  IF \E i \in 1..Len(reg) : reg[i].name = name
  THEN CHOOSE i \in 1..Len(reg) : reg[i].name = name
  ELSE 0

\* variant: a name that is already registered keeps its first plugin
registerFirstWins(reg, plugin) ==
  IF IndexOf(reg, plugin.name) = 0
  THEN Append(reg, plugin)
  ELSE reg

\* Map.set: a new key is appended, an existing key keeps its position
register(reg, plugin) ==
  IF IndexOf(reg, plugin.name) = 0
  THEN Append(reg, plugin)
  ELSE [reg EXCEPT ![IndexOf(reg, plugin.name)] = plugin]

\* Map.get
get(reg, name) ==
  IF IndexOf(reg, name) = 0 THEN NotFound ELSE reg[IndexOf(reg, name)]

getAll(reg) == reg

\* variant: a plugin is enabled only if its config says so
IsEnabledOptIn(plugin) == plugin.config = "true"

\* plugin.config?.enabled !== false
IsEnabled(plugin) == plugin.config # "false"

\* variant: the result of the first getEnabled() query is kept and returned
\* by later ones
getEnabledCached(reg) ==
  IF view.query = "enabled" THEN view.result ELSE SelectSeq(getAll(reg), IsEnabled)

\* this.getAll().filter((plugin) => plugin.config?.enabled !== false)
getEnabled(reg) == SelectSeq(getAll(reg), IsEnabled)

HasIssue(plugin) == "issue" \in plugin.handlers
HasPullRequest(plugin) == "pullRequest" \in plugin.handlers
HasPush(plugin) == "push" \in plugin.handlers
HasIssueComment(plugin) == "issueComment" \in plugin.handlers
HasReview(plugin) == "review" \in plugin.handlers
HasGenericComment(plugin) == "genericComment" \in plugin.handlers

\* plugin.handlers.<kind>: the function, named by its plugin and its kind
HandlerOf(plugin, kind) == [owner |-> plugin, kind |-> kind]

\* result.push({ plugin, handler: plugin.handlers.<kind> }) for each plugin
Pairs(plugins, kind) ==
  [i \in 1..Len(plugins) |-> [plugin |-> plugins[i], handler |-> HandlerOf(plugins[i], kind)]]

getIssueHandlers(reg) == Pairs(SelectSeq(getEnabled(reg), HasIssue), "issue")

getPullRequestHandlers(reg) ==
  Pairs(SelectSeq(getEnabled(reg), HasPullRequest), "pullRequest")

\* variant: the push lookup filters getAll() instead of getEnabled()
getPushHandlersOfAll(reg) == Pairs(SelectSeq(getAll(reg), HasPush), "push")

getPushHandlers(reg) == Pairs(SelectSeq(getEnabled(reg), HasPush), "push")

getIssueCommentHandlers(reg) ==
  Pairs(SelectSeq(getEnabled(reg), HasIssueComment), "issueComment")

getReviewHandlers(reg) == Pairs(SelectSeq(getEnabled(reg), HasReview), "review")

getGenericCommentHandlers(reg) ==
  Pairs(SelectSeq(getEnabled(reg), HasGenericComment), "genericComment")

\* the registry lookup each handle*Event method makes
HandlersOf(cat, reg) ==
  CASE cat = "issue" -> getIssueHandlers(reg)
    [] cat = "pullRequest" -> getPullRequestHandlers(reg)
    [] cat = "push" -> getPushHandlers(reg)
    [] cat = "issueComment" -> getIssueCommentHandlers(reg)
    [] cat = "review" -> getReviewHandlers(reg)
    [] cat = "genericComment" -> getGenericCommentHandlers(reg)

(***************************************************************************)
(* PluginAgentImpl                                                         *)
(***************************************************************************)
\* the fields of a new PluginAgentImpl whose 'outputs' is the object at ref
PluginAgentImpl(ref) ==
  [outputs |-> ref, actionTaken |-> FALSE, failureMessage |-> Undefined]

\* variant: one agent is created once and handed to every invocation
AllocAgentShared(ags, objs) ==
  IF ags = <<>>
  THEN [agents |-> Append(ags, PluginAgentImpl(Len(objs) + 1)),
        objects |-> Append(objs, EmptyObject), ref |-> Len(ags) + 1]
  ELSE [agents |-> ags, objects |-> objs, ref |-> 1]

\* new PluginAgentImpl(): a new agent with a new, empty outputs object
AllocAgent(ags, objs) ==
  [agents |-> Append(ags, PluginAgentImpl(Len(objs) + 1)),
   objects |-> Append(objs, EmptyObject), ref |-> Len(ags) + 1]

\* variant: the outputs are replaced by an object holding the one entry
setOutputReplaces(ag, objs, name, value) ==
  [objs EXCEPT ![ag.outputs] = [EmptyObject EXCEPT ![name] = value]]

\* this.outputs[name] = value
setOutput(ag, objs, name, value) == [objs EXCEPT ![ag.outputs][name] = value]

\* variant: only the first failure message is kept
setFailedFirstWins(ag, message) ==
  IF ag.failureMessage = Undefined THEN [ag EXCEPT !.failureMessage = message] ELSE ag

\* this.failureMessage = message
setFailed(ag, message) == [ag EXCEPT !.failureMessage = message]

\* variant: the flag is toggled
tookActionToggles(ag) == [ag EXCEPT !.actionTaken = ~ag.actionTaken]

\* this.actionTaken = true
tookAction(ag) == [ag EXCEPT !.actionTaken = TRUE]

\* variant: return this.outputs
getOutputsLive(ag, objs) == [objects |-> objs, ref |-> ag.outputs]

\* return { ...this.outputs }: a new object with the same properties
getOutputs(ag, objs) ==
  [objects |-> Append(objs, objs[ag.outputs]), ref |-> Len(objs) + 1]

didTakeAction(ag) == ag.actionTaken

\* this.failureMessage !== undefined
hasFailed(ag) == ag.failureMessage # Undefined

getFailureMessage(ag) == ag.failureMessage

\* what the history records for an agent no call was made on
NoCalls == [outputs |-> EmptyObject, took |-> FALSE, failed |-> Undefined]

(***************************************************************************)
(* EventHandlers: the fan-out engine                                       *)
(***************************************************************************)
\* variant: the message property is read from whatever was thrown
ErrorMessageOfAny(t) == t.message

\* error instanceof Error ? error.message : 'Unknown error'
ErrorMessage(t) == IF t.isError THEN t.message ELSE "Unknown error"

\* the promise of a mapped callback whose handler has not settled yet
Pending(name) == [status |-> "pending", pluginName |-> name, result |-> NoResult]

\* the try branch: return { pluginName: plugin.name, result }
OnReturn(name, r) == [status |-> "fulfilled", pluginName |-> name, result |-> r]

\* variant: the callback is not async and has no try/catch; a throw before
\* the handler suspends leaves map(), a later one rejects the promise
OnThrowEscapes(name, t, sync) ==
  [status |-> IF sync THEN "escaped" ELSE "rejected",
   pluginName |-> name, result |-> NoResult]

\* the catch branch: the callback is async and the handler is called inside
\* its try block, so a throw of the handler (before or after it suspends)
\* becomes a fulfilled promise carrying a synthesized HandlerResult
OnThrow(name, t, sync) ==
  [status |-> "fulfilled", pluginName |-> name,
   result |-> [success |-> FALSE, tookAction |-> FALSE, message |-> ErrorMessage(t)]]

\* variant: resumes as soon as one promise has settled (Promise.race)
anySettled(ps) == ps = <<>> \/ \E i \in 1..Len(ps) : ps[i].status # "pending"

\* Promise.allSettled resolves once no promise is pending
allSettled(ps) == \A i \in 1..Len(ps) : ps[i].status # "pending"

\* variant: only successful results are put into the map
RECURSIVE FoldSuccessful(_, _)
FoldSuccessful(ps, map) ==
  IF ps = <<>> THEN map
  ELSE LET p == Head(ps)
           m == IF p.status = "fulfilled" /\ p.result.success
                THEN [n \in (DOMAIN map) \cup {p.pluginName} |->
                        IF n = p.pluginName THEN p.result ELSE map[n]]
                ELSE map
       IN FoldSuccessful(Tail(ps), m)

\* variant: the loop ends at the first result that is not fulfilled (reading
\* result.value.pluginName of a rejected result throws)
RECURSIVE FoldUntilRejected(_, _)
FoldUntilRejected(ps, map) ==
  IF ps = <<>> THEN map
  ELSE LET p == Head(ps)
       IN IF p.status = "fulfilled"
          THEN FoldUntilRejected(Tail(ps),
                 [n \in (DOMAIN map) \cup {p.pluginName} |->
                    IF n = p.pluginName THEN p.result ELSE map[n]])
          ELSE map

\* for (const result of results) if (result.status === 'fulfilled')
\*   resultMap.set(result.value.pluginName, result.value.result)
RECURSIVE Fold(_, _)
Fold(ps, map) ==
  IF ps = <<>> THEN map
  ELSE LET p == Head(ps)
           m == IF p.status = "fulfilled"
                THEN [n \in (DOMAIN map) \cup {p.pluginName} |->
                        IF n = p.pluginName THEN p.result ELSE map[n]]
                ELSE map
       IN Fold(Tail(ps), m)

\* a handle*Event method is entered: the registry lookup, no handler started
EnterFanOut(cat, rest) ==
  /\ pc' = "fanout"
  /\ todo' = rest
  /\ called' = Append(called, cat)
  /\ handlers' = HandlersOf(cat, registry)
  /\ inv' = <<>>
  /\ promises' = <<>>
  /\ returned' = FALSE
  /\ resultMap' = NoMap
  /\ UNCHANGED <<invocations, escaped>>

\* variant: for (const h of handlers) await ...: a callback is called only
\* when every earlier handler has settled
NextToStartAwaited(invs, hs) ==
  IF Len(invs) < Len(hs) /\ \A j \in 1..Len(invs) : invs[j].state # "running"
  THEN Len(invs) + 1
  ELSE 0

\* variant: when all callbacks have been called, a handler that threw is
\* called again
NextToStartRetry(invs, hs) ==
  IF Len(invs) < Len(hs) THEN Len(invs) + 1
  ELSE IF \E j \in 1..Len(hs) : invs[j].state = "threw"
  THEN CHOOSE j \in 1..Len(hs) : invs[j].state = "threw"
  ELSE 0

\* handlers.map(callback): map calls the callback of the next element as
\* soon as the previous call has returned its promise; 0 when none is left
NextToStart(invs, hs) == IF Len(invs) < Len(hs) THEN Len(invs) + 1 ELSE 0

\* handlers.map(async ({ plugin, handler }) => ...): the callbacks are
\* started in list order, none waits for another; the handler either throws
\* before it suspends or suspends (returns a pending promise)
StartHandler ==
  /\ pc = "fanout"
  /\ NextToStart(inv, handlers) # 0
  /\ LET i == NextToStart(inv, handlers)
         name == handlers[i].plugin.name
         handler == handlers[i].handler
         new == AllocAgent(agents, objects)
     IN /\ invocations' = Append(invocations, <<handler.kind, handler.owner.name>>)
        /\ agents' = new.agents
        /\ objects' = new.objects
        /\ hist' = Append(hist, NoCalls)
        /\ \/ /\ inv' = Append(inv, [plugin |-> name, state |-> "running",
                                    ret |-> NoResult, thrown |-> NoThrown, sync |-> FALSE,
                                    agent |-> new.ref, calls |-> Len(hist) + 1])
              /\ promises' = Append(promises, Pending(name))
              /\ UNCHANGED <<pc, escaped, failure>>
           \/ \E t \in Thrown :
                LET p == OnThrow(name, t, TRUE)
                IN /\ inv' = Append(inv, [plugin |-> name, state |-> "threw",
                                         ret |-> NoResult, thrown |-> t, sync |-> TRUE,
                                         agent |-> new.ref, calls |-> Len(hist) + 1])
                   /\ IF p.status = "escaped"
                      THEN \* the exception leaves map() and the method
                           /\ escaped' = TRUE
                           /\ promises' = promises
                           /\ pc' = IF caller = "dispatch" THEN "failed" ELSE "threw"
                           /\ failure' = IF caller = "dispatch" THEN ErrorMessage(t) ELSE failure
                      ELSE /\ promises' = Append(promises, p)
                           /\ UNCHANGED <<pc, escaped, failure>>
  /\ UNCHANGED <<caller, inputVars, envToken, registry, enabledPlugins, todo,
                 called, handlers, returned, resultMap, outputs>>
  /\ UNCHANGED <<lastReg, held, view, pluginVars>>

\* a suspended handler settles: its promise resolves with a HandlerResult
HandlerReturns(i) ==
  /\ i \in 1..Len(inv)
  /\ inv[i].state = "running"
  /\ \E r \in Returns :
       /\ inv' = [inv EXCEPT ![i].state = "returned", ![i].ret = r]
       /\ promises' = [promises EXCEPT ![i] = OnReturn(inv[i].plugin, r)]
  /\ UNCHANGED <<pc, caller, inputVars, envToken, registry, enabledPlugins, todo,
                 called, handlers, returned, resultMap, invocations, escaped,
                 outputs, failure>>
  /\ UNCHANGED <<lastReg, agentVars, view, pluginVars>>

\* a suspended handler settles: its promise rejects
HandlerThrows(i) ==
  /\ i \in 1..Len(inv)
  /\ inv[i].state = "running"
  /\ \E t \in Thrown :
       /\ inv' = [inv EXCEPT ![i].state = "threw", ![i].thrown = t]
       /\ promises' = [promises EXCEPT ![i] = OnThrow(inv[i].plugin, t, FALSE)]
  /\ UNCHANGED <<pc, caller, inputVars, envToken, registry, enabledPlugins, todo,
                 called, handlers, returned, resultMap, invocations, escaped,
                 outputs, failure>>
  /\ UNCHANGED <<lastReg, agentVars, view, pluginVars>>

\* await Promise.allSettled(...) resumes, the results are folded into the
\* map and the method returns to its caller
Join ==
  /\ pc = "fanout"
  /\ Len(promises) = Len(handlers)
  /\ allSettled(promises)
  /\ IF todo # <<>>
     THEN /\ EnterFanOut(Head(todo), Tail(todo))
          /\ UNCHANGED <<caller, inputVars, envToken, registry, enabledPlugins,
                         outputs, failure>>
     ELSE /\ returned' = TRUE
          /\ resultMap' = Fold(promises, NoMap)
          /\ pc' = IF caller = "dispatch" THEN "emit" ELSE "returned"
          /\ UNCHANGED <<caller, inputVars, envToken, registry, enabledPlugins, todo,
                         called, handlers, inv, promises, invocations, escaped,
                         outputs, failure>>
  /\ UNCHANGED <<lastReg, agentVars, view, pluginVars>>

(***************************************************************************)
(* A direct caller of PluginRegistry and EventHandlers                     *)
(***************************************************************************)
Register ==
  /\ pc = "idle"
  /\ caller \in {"none", "direct"}
  /\ \E plugin \in TestPlugins :
       /\ registry' = register(registry, plugin)
       /\ lastReg' = [lastReg EXCEPT ![plugin.name] = plugin]
  /\ caller' = "direct"
  /\ UNCHANGED <<pc, inputVars, envToken, enabledPlugins, fanoutVars, outputs, failure>>
  /\ UNCHANGED <<agentVars, view, pluginVars>>

Handle(cat) ==
  /\ pc = "idle"
  /\ caller \in {"none", "direct"}
  /\ caller' = "direct"
  /\ EnterFanOut(cat, <<>>)
  /\ UNCHANGED <<inputVars, envToken, registry, enabledPlugins, outputs, failure>>
  /\ UNCHANGED <<lastReg, agentVars, view, pluginVars>>

handleIssueEvent == Handle("issue")

handlePullRequestEvent == Handle("pullRequest")

handlePushEvent == Handle("push")

handleIssueCommentEvent == Handle("issueComment")

handleReviewEvent == Handle("review")

handleGenericCommentEvent == Handle("genericComment")

(***************************************************************************)
(* EventDispatcher                                                         *)
(***************************************************************************)
\* variant: the input is read without { required: true }
getInputOptional(tok) ==
  [threw |-> FALSE,
   message |-> "Input required and not supplied: github-token"]

\* core.getInput('github-token', { required: true }) throws when the input
\* is not supplied
getInputRequired(tok) ==
  [threw |-> tok = "missing",
   message |-> "Input required and not supplied: github-token"]

\* String.prototype.trim on one segment of the plugins input
Trim(seg) ==
  CASE seg = " size " -> "size"
    [] seg = " " -> ""
    [] OTHER -> seg

NonEmpty(seg) == seg # ""

RECURSIVE MapTrim(_)
MapTrim(segs) ==
  IF segs = <<>> THEN <<>> ELSE <<Trim(Head(segs))>> \o MapTrim(Tail(segs))

\* variant: the input is parsed as it is, without the default
ParsePluginsNoDefault(input) == SelectSeq(MapTrim(input), NonEmpty)

\* (core.getInput('plugins') || 'dog').split(',').map(trim).filter(nonempty)
ParsePlugins(input) ==
  LET raw == IF input = <<"">> THEN <<"dog">> ELSE input
  IN SelectSeq(MapTrim(raw), NonEmpty)

Includes(seq, x) == \E i \in 1..Len(seq) : seq[i] = x

\* variant: nothing is registered before the payload has been validated
registerNothing(reg, plugins, enabled) == reg

\* variant: every plugin of the list is registered, whatever the input names
RECURSIVE registerEveryBuiltIn(_, _, _)
registerEveryBuiltIn(reg, plugins, enabled) ==
  IF plugins = <<>> THEN reg
  ELSE registerEveryBuiltIn(register(reg, [name |-> Head(plugins),
                                           handlers |-> PluginHandlers[Head(plugins)],
                                           config |-> "true"]),
                            Tail(plugins), enabled)

\* for (const plugin of plugins) if (enabledPlugins.includes(plugin.name))
\*   { plugin.config = { enabled: true }; this.registry.register(plugin) }
RECURSIVE registerBuiltInPlugins(_, _, _)
registerBuiltInPlugins(reg, plugins, enabled) ==
  IF plugins = <<>> THEN reg
  ELSE LET name == Head(plugins)
           reg2 == IF Includes(enabled, name)
                   THEN register(reg, [name |-> name,
                                       handlers |-> PluginHandlers[name],
                                       config |-> "true"])
                   ELSE reg
       IN registerBuiltInPlugins(reg2, Tail(plugins), enabled)

\* variant: issue_comment is routed to handleIssueCommentEvent
demuxEventIssueComment(ev, p) ==
  CASE ev = "issues" ->
         IF hasIssue(p) THEN <<"issue">> ELSE <<>>
    [] ev = "issue_comment" ->
         IF hasComment(p) /\ hasIssue(p) THEN <<"issueComment">> ELSE <<>>
    [] ev = "pull_request" ->
         IF hasPullRequest(p) THEN <<"pullRequest">> ELSE <<>>
    [] ev = "pull_request_review" ->
         IF hasReview(p) THEN <<"genericComment">> ELSE <<>>
    [] ev = "pull_request_review_comment" ->
         IF hasComment(p) THEN <<"genericComment">> ELSE <<>>
    [] ev = "push" -> <<"push">>
    [] OTHER -> <<>>

\* variant: the pull_request case has no break and falls through to the
\* pull_request_review case
demuxEventFallThrough(ev, p) ==
  CASE ev = "issues" ->
         IF hasIssue(p) THEN <<"issue">> ELSE <<>>
    [] ev = "issue_comment" ->
         IF hasComment(p) /\ hasIssue(p) THEN <<"genericComment">> ELSE <<>>
    [] ev = "pull_request" ->
         (IF hasPullRequest(p) THEN <<"pullRequest">> ELSE <<>>)
           \o (IF hasReview(p) THEN <<"genericComment">> ELSE <<>>)
    [] ev = "pull_request_review" ->
         IF hasReview(p) THEN <<"genericComment">> ELSE <<>>
    [] ev = "pull_request_review_comment" ->
         IF hasComment(p) THEN <<"genericComment">> ELSE <<>>
    [] ev = "push" -> <<"push">>
    [] OTHER -> <<>>

\* variant: push is gated on hasRepository like the other cases
demuxEventPushGated(ev, p) ==
  CASE ev = "issues" ->
         IF hasIssue(p) THEN <<"issue">> ELSE <<>>
    [] ev = "issue_comment" ->
         IF hasComment(p) /\ hasIssue(p) THEN <<"genericComment">> ELSE <<>>
    [] ev = "pull_request" ->
         IF hasPullRequest(p) THEN <<"pullRequest">> ELSE <<>>
    [] ev = "pull_request_review" ->
         IF hasReview(p) THEN <<"genericComment">> ELSE <<>>
    [] ev = "pull_request_review_comment" ->
         IF hasComment(p) THEN <<"genericComment">> ELSE <<>>
    [] ev = "push" -> IF hasRepository(p) THEN <<"push">> ELSE <<>>
    [] OTHER -> <<>>

\* the switch of demuxEvent: the handle*Event methods it calls, in order
demuxEvent(ev, p) ==
  CASE ev = "issues" ->
         IF hasIssue(p) THEN <<"issue">> ELSE <<>>
    [] ev = "issue_comment" ->
         IF hasComment(p) /\ hasIssue(p) THEN <<"genericComment">> ELSE <<>>
    [] ev = "pull_request" ->
         IF hasPullRequest(p) THEN <<"pullRequest">> ELSE <<>>
    [] ev = "pull_request_review" ->
         IF hasReview(p) THEN <<"genericComment">> ELSE <<>>
    [] ev = "pull_request_review_comment" ->
         IF hasComment(p) THEN <<"genericComment">> ELSE <<>>
    [] ev = "push" -> <<"push">>
    [] OTHER -> <<>>

\* new EventDispatcher(): a fresh registry, the context read from
\* github.context; dispatch() is entered in a process whose environment
\* may hold a GITHUB_TOKEN already
DispatchStart ==
  /\ pc = "idle"
  /\ caller = "none"
  /\ caller' = "dispatch"
  /\ \E ev \in EventNames : eventName' = ev
  /\ \E env \in EnvTokens : envToken' = env
  /\ pc' = "getToken"
  /\ UNCHANGED <<tokenInput, pluginsInput, payload, registry,
                 enabledPlugins, fanoutVars, outputs, failure>>
  /\ UNCHANGED <<lastReg, agentVars, view, pluginVars>>

\* variant: the input is read and the environment is left as it was
GetTokenOnly ==
  /\ pc = "getToken"
  /\ \E tok \in TokenInputs :
       /\ tokenInput' = tok
       /\ IF getInputRequired(tok).threw
          THEN /\ pc' = "failed"
               /\ failure' = getInputRequired(tok).message
               /\ UNCHANGED envToken
          ELSE /\ pc' = "register"
               /\ UNCHANGED <<envToken, failure>>
  /\ UNCHANGED <<caller, pluginsInput, eventName, payload, registry,
                 enabledPlugins, fanoutVars, outputs>>
  /\ UNCHANGED <<lastReg, agentVars, view, pluginVars>>

\* const token = core.getInput(...); process.env.GITHUB_TOKEN = token
GetToken ==
  /\ pc = "getToken"
  /\ \E tok \in TokenInputs :
       /\ tokenInput' = tok
       /\ IF getInputRequired(tok).threw
          THEN /\ pc' = "failed"
               /\ failure' = getInputRequired(tok).message
               /\ UNCHANGED envToken
          ELSE /\ pc' = "register"
               /\ envToken' = "set"
               /\ UNCHANGED failure
  /\ UNCHANGED <<caller, pluginsInput, eventName, payload, registry,
                 enabledPlugins, fanoutVars, outputs>>
  /\ UNCHANGED <<lastReg, agentVars, view, pluginVars>>

\* the plugins input is read and parsed, the built-in plugins registered
RegisterPlugins ==
  /\ pc = "register"
  /\ \E input \in PluginInputs :
       /\ pluginsInput' = input
       /\ enabledPlugins' = ParsePlugins(input)
       /\ registry' = registerBuiltInPlugins(registry, BuiltInPlugins, ParsePlugins(input))
       /\ lastReg' = [n \in AllNames |->
                        IF /\ \E k \in 1..Len(BuiltInPlugins) : BuiltInPlugins[k] = n
                           /\ \E j \in 1..Len(ParsePlugins(input)) : ParsePlugins(input)[j] = n
                        THEN [name |-> n, handlers |-> PluginHandlers[n], config |-> "true"]
                        ELSE lastReg[n]]
  /\ pc' = "validate"
  /\ UNCHANGED <<caller, tokenInput, eventName, payload, envToken, fanoutVars,
                 outputs, failure>>
  /\ UNCHANGED <<agentVars, view, pluginVars>>

\* variant: an invalid payload is reported with core.setFailed and dispatch
\* goes on
ValidateReports ==
  /\ pc = "validate"
  /\ \E p \in Payloads :
       /\ payload' = p
       /\ pc' = "demux"
       /\ failure' = IF isValidEvent(p) THEN failure ELSE "Invalid event payload"
  /\ UNCHANGED <<caller, tokenInput, pluginsInput, eventName, envToken, registry,
                 enabledPlugins, fanoutVars, outputs>>
  /\ UNCHANGED <<lastReg, agentVars, view, pluginVars>>

\* const payload = github.context.payload;
\* if (!EventValidator.isValidEvent(payload)) throw new Error(...)
Validate ==
  /\ pc = "validate"
  /\ \E p \in Payloads :
       /\ payload' = p
       /\ IF isValidEvent(p)
          THEN /\ pc' = "demux"
               /\ UNCHANGED failure
          ELSE /\ pc' = "failed"
               /\ failure' = "Invalid event payload"
  /\ UNCHANGED <<caller, tokenInput, pluginsInput, eventName, envToken, registry,
                 enabledPlugins, fanoutVars, outputs>>
  /\ UNCHANGED <<lastReg, agentVars, view, pluginVars>>

\* await this.demuxEvent(payload)
DemuxEvent ==
  /\ pc = "demux"
  /\ LET cats == demuxEvent(eventName, payload)
     IN IF cats = <<>>
        THEN /\ pc' = "emit"
             /\ UNCHANGED fanoutVars
        ELSE EnterFanOut(Head(cats), Tail(cats))
  /\ UNCHANGED <<caller, inputVars, envToken, registry, enabledPlugins, outputs, failure>>
  /\ UNCHANGED <<lastReg, agentVars, view, pluginVars>>

\* the core.setOutput calls that end dispatch()
Emit ==
  /\ pc = "emit"
  /\ outputs' = [n \in {"event_name", "event_guid", "repository",
                        "plugins_enabled", "workflow_data"} |->
                   CASE n = "event_name" -> <<eventName>>
                     [] n = "event_guid" -> <<"runId">>
                     [] n = "repository" -> <<"owner/repo">>
                     [] n = "plugins_enabled" -> enabledPlugins
                     [] OTHER -> <<"workflowDataJson">>]
  /\ pc' = "done"
  /\ UNCHANGED <<caller, inputVars, envToken, registry, enabledPlugins, fanoutVars, failure>>
  /\ UNCHANGED <<lastReg, agentVars, view, pluginVars>>

(***************************************************************************)
(* A caller that queries the registry between changes                      *)
(***************************************************************************)
\* the plugins this caller registers, each without a config at first
QueriedPlugins ==
  [name : {TestNames[1], TestNames[2]}, handlers : TestHandlerMaps, config : {"absent"}]

\* registry.register(plugin)
RegisterQueried ==
  /\ \E plugin \in QueriedPlugins :
       /\ registry' = register(registry, plugin)
       /\ lastReg' = [lastReg EXCEPT ![plugin.name] = plugin]
  /\ UNCHANGED <<pc, caller, inputVars, envToken, enabledPlugins, fanoutVars, outputs,
                 failure, agentVars, view, pluginVars>>

\* plugin.config = { enabled: ... } or delete plugin.config on a plugin
\* object that is in the registry: the Map holds the object itself
SetEnabled ==
  /\ \E i \in 1..Len(registry), c \in Configs :
       /\ registry[i].config # c
       /\ registry' = [registry EXCEPT ![i].config = c]
       /\ lastReg' = [lastReg EXCEPT ![registry[i].name].config = c]
  /\ UNCHANGED <<pc, caller, inputVars, envToken, enabledPlugins, fanoutVars, outputs,
                 failure, agentVars, view, pluginVars>>

\* const enabled = registry.getEnabled()
QueryEnabled ==
  /\ view' = [query |-> "enabled", result |-> getEnabled(registry), at |-> registry]
  /\ UNCHANGED <<pc, caller, inputVars, envToken, registry, enabledPlugins, fanoutVars,
                 outputs, failure, lastReg, agentVars, pluginVars>>

\* const handlers = registry.get<Kind>Handlers()
QueryHandlers ==
  /\ \E kind \in Categories :
       view' = [query |-> kind, result |-> HandlersOf(kind, registry), at |-> registry]
  /\ UNCHANGED <<pc, caller, inputVars, envToken, registry, enabledPlugins, fanoutVars,
                 outputs, failure, lastReg, agentVars, pluginVars>>

(***************************************************************************)
(* Calls on a PluginAgentImpl                                              *)
(***************************************************************************)
\* agent.setOutput(name, value) on the agent at a, whose history is hist[h]
SetOutputOn(a, h) ==
  \E name \in OutputNames, value \in OutputValues :
    /\ objects' = setOutput(agents[a], objects, name, value)
    /\ hist' = [hist EXCEPT ![h].outputs[name] = value]
    /\ UNCHANGED <<agents, held>>

\* agent.tookAction()
TookActionOn(a, h) ==
  /\ agents' = [agents EXCEPT ![a] = tookAction(agents[a])]
  /\ hist' = [hist EXCEPT ![h].took = TRUE]
  /\ UNCHANGED <<objects, held>>

\* agent.setFailed(message)
SetFailedOn(a, h) ==
  \E message \in FailureMessages :
    /\ agents' = [agents EXCEPT ![a] = setFailed(agents[a], message)]
    /\ hist' = [hist EXCEPT ![h].failed = message]
    /\ UNCHANGED <<objects, held>>

\* a running handler calls a method of the agent it was given
HandlerSetsOutput(i) ==
  /\ i \in 1..Len(inv)
  /\ inv[i].state = "running"
  /\ SetOutputOn(inv[i].agent, inv[i].calls)
  /\ UNCHANGED programVars

HandlerTookAction(i) ==
  /\ i \in 1..Len(inv)
  /\ inv[i].state = "running"
  /\ TookActionOn(inv[i].agent, inv[i].calls)
  /\ UNCHANGED programVars

HandlerSetsFailed(i) ==
  /\ i \in 1..Len(inv)
  /\ inv[i].state = "running"
  /\ SetFailedOn(inv[i].agent, inv[i].calls)
  /\ UNCHANGED programVars

\* agent = new PluginAgentImpl(), as a unit test does before each test
Construct ==
  /\ agents = <<>>
  /\ agents' = AllocAgent(agents, objects).agents
  /\ objects' = AllocAgent(agents, objects).objects
  /\ hist' = Append(hist, NoCalls)
  /\ UNCHANGED <<held, programVars>>

AgentSetOutput ==
  /\ agents # <<>>
  /\ SetOutputOn(1, 1)
  /\ UNCHANGED programVars

AgentTookAction ==
  /\ agents # <<>>
  /\ TookActionOn(1, 1)
  /\ UNCHANGED programVars

AgentSetFailed ==
  /\ agents # <<>>
  /\ SetFailedOn(1, 1)
  /\ UNCHANGED programVars

\* const outputs = agent.getOutputs(); the caller keeps the returned map
AgentGetOutputs ==
  /\ agents # <<>>
  /\ Len(held) < MaxSnapshots
  /\ LET r == getOutputs(agents[1], objects)
     IN /\ objects' = r.objects
        /\ held' = Append(held, [ref |-> r.ref, content |-> hist[1].outputs])
  /\ UNCHANGED <<agents, hist, programVars>>

\* the holder of a returned map (a plain mutable object) writes into it
ModifyReturned ==
  \E k \in 1..Len(held), name \in OutputNames :
    /\ objects' = [objects EXCEPT ![held[k].ref][name] = "modified"]
    /\ held' = [held EXCEPT ![k].content[name] = "modified"]
    /\ UNCHANGED <<agents, hist, programVars>>

(***************************************************************************)
(* The stage plugin                                                        *)
(***************************************************************************)
\* `stage/${stage}`
StageLabel(name) ==
  CASE name = "alpha" -> "stage/alpha"
    [] name = "beta" -> "stage/beta"
    [] name = "stable" -> "stage/stable"

IsStageCommand(line) == line.cmd # "text"

\* Array.from(body.matchAll(stageRe)): the lines the regex matches, in
\* order, each as match[1] === 'remove' and the label of match[2]
StageMatches(body) ==
  LET ms == SelectSeq(body, IsStageCommand)
  IN [i \in 1..Len(ms) |-> [remove |-> ms[i].cmd = "remove-stage",
                            label |-> StageLabel(ms[i].name)]]

\* the API calls the loop body makes for one match, given the labels read
\* before the loop
StageCalls(match, labels) ==
  LET hasLabel == match.label \in labels
      IsOther(l) == l # match.label /\ l \in labels
      others == SelectSeq(STAGE_LABELS, IsOther)
  IN IF hasLabel /\ match.remove
     THEN << [call |-> "removeLabel", name |-> match.label] >>
     ELSE IF ~hasLabel /\ ~match.remove
     THEN [i \in 1..Len(others) |-> [call |-> "removeLabel", name |-> others[i]]]
            \o << [call |-> "addLabels", name |-> match.label] >>
     ELSE <<>>

\* what a successful call does to the labels of the issue on GitHub
StageApply(c, issue) ==
  IF c.call = "addLabels" THEN issue \cup {c.name} ELSE issue \ {c.name}

StageNoAction == [success |-> TRUE, tookAction |-> FALSE, message |-> "<undefined>"]

\* the catch block: agent.setFailed(errorMessage) and a failed result
StageCatch(message) ==
  [stage EXCEPT !.pc = "done",
                !.agent = setFailed(stage.agent, message),
                !.result = [success |-> FALSE, tookAction |-> FALSE, message |-> message]]

\* the handler is called and runs up to its first await or return
StageReceive ==
  /\ stage.pc = "idle"
  /\ \E commented \in BOOLEAN, body \in Bodies, hasNumber \in BOOLEAN,
        token \in BOOLEAN, issue \in SUBSET StageLabelSet :
       LET s0 == [stage EXCEPT !.issue = issue]
       IN stage' =
            IF ~commented \/ body = <<>> \/ ~hasNumber \/ StageMatches(body) = <<>>
            THEN [s0 EXCEPT !.pc = "done", !.result = StageNoAction]
            ELSE IF ~token
            THEN [s0 EXCEPT !.pc = "done",
                            !.matches = StageMatches(body),
                            !.agent = setFailed(stage.agent, "GITHUB_TOKEN not found"),
                            !.result = [success |-> FALSE, tookAction |-> FALSE,
                                        message |-> "GITHUB_TOKEN not found"]]
            ELSE [s0 EXCEPT !.pc = "get", !.matches = StageMatches(body)]
  /\ UNCHANGED exceptStage

\* await octokit.rest.issues.get(...): the labels are read once
StageGetIssue ==
  /\ stage.pc = "get"
  /\ \/ stage' = [stage EXCEPT !.pc = "loop", !.labels = stage.issue]
     \/ stage' = StageCatch("API error")
  /\ UNCHANGED exceptStage

\* for (const match of matches): the next match is taken up
StageNextMatch ==
  /\ stage.pc = "loop"
  /\ stage.ops = <<>>
  /\ stage.next <= Len(stage.matches)
  /\ stage' = [stage EXCEPT !.ops = StageCalls(stage.matches[stage.next], stage.labels),
                            !.next = stage.next + 1]
  /\ UNCHANGED exceptStage

\* await octokit.rest.issues.removeLabel(...) or addLabels(...): the call
\* succeeds or throws; tookAction = true follows the last call of a match
StageApiCall ==
  /\ stage.pc = "loop"
  /\ stage.ops # <<>>
  /\ \/ stage' = [stage EXCEPT !.issue = StageApply(Head(stage.ops), stage.issue),
                               !.ops = Tail(stage.ops),
                               !.tookAction = (Tail(stage.ops) = <<>>) \/ stage.tookAction]
     \/ stage' = StageCatch("API error")
  /\ UNCHANGED exceptStage

\* the loop has ended: the agent calls and the result
StageReturn ==
  /\ stage.pc = "loop"
  /\ stage.ops = <<>>
  /\ stage.next > Len(stage.matches)
  /\ stage' =
       IF stage.tookAction
       THEN [stage EXCEPT !.pc = "done",
                          !.agent = [tookAction(stage.agent) EXCEPT
                                       !.outputs = {"stage_action", "issue_number"}],
                          !.result = [success |-> TRUE, tookAction |-> TRUE,
                                      message |-> "Updated stage labels"]]
       ELSE [stage EXCEPT !.pc = "done", !.result = StageNoAction]
  /\ UNCHANGED exceptStage

(***************************************************************************)
(* The approve plugin                                                      *)
(***************************************************************************)
ApproveNoAction == [success |-> TRUE, tookAction |-> FALSE, message |-> "<undefined>"]

\* the catch block: agent.setFailed(errorMessage) and a failed result
ApproveCatch(a, message) ==
  [a EXCEPT !.pc = "done",
            !.agent = setFailed(a.agent, message),
            !.result = [success |-> FALSE, tookAction |-> FALSE, message |-> message]]

\* return { success: true, tookAction: false }
ApproveReturn(a) == [a EXCEPT !.pc = "done", !.result = ApproveNoAction]

\* the branch 'if (payload.review)', up to its first await or return
ApproveOnReview(a, submitted, hasPR, body, state) ==
  IF ~submitted \/ ~hasPR THEN ApproveReturn(a)
  ELSE IF body \in {"approve", "cancel"} THEN ApproveReturn(a)
  ELSE IF state \notin {"approved", "changes_requested"} THEN ApproveReturn(a)
  ELSE LET wantApproved == state = "approved"
       IN IF a.author /\ wantApproved
          THEN [a EXCEPT !.pc = "selfComment", !.want = wantApproved]
          ELSE [a EXCEPT !.pc = "get", !.want = wantApproved]

\* the issue_comment branch, up to its first await or return
ApproveOnComment(a, body, isPR, open) ==
  IF body = "absent" THEN ApproveReturn(a)
  ELSE IF ~isPR THEN ApproveReturn(a)
  ELSE IF ~open THEN ApproveReturn(a)
  ELSE IF body = "text" THEN ApproveReturn(a)
  ELSE LET wantApproved == body = "approve"
       IN IF a.author /\ wantApproved
          THEN [a EXCEPT !.pc = "selfComment", !.want = wantApproved]
          ELSE [a EXCEPT !.pc = "check", !.want = wantApproved]

\* the handler is called with a payload about a pull request that carries
\* the approved label or not, by a user who is a collaborator or not and
\* the author of the pull request or not
ApproveReceive ==
  /\ approve.pc = "idle"
  /\ \E token \in BOOLEAN, hasReviewKey \in BOOLEAN, submitted \in BOOLEAN,
        hasPR \in BOOLEAN, reviewBody \in ApproveBodies, state \in ReviewStates,
        body \in ApproveBodies, isPR \in BOOLEAN, open \in BOOLEAN,
        collaborator \in BOOLEAN, author \in BOOLEAN, labelled \in BOOLEAN :
       LET a == [approve EXCEPT !.path = IF hasReviewKey THEN "review" ELSE "comment",
                                !.collaborator = collaborator,
                                !.author = author,
                                !.labelled = labelled]
       IN approve' =
            IF ~token THEN ApproveCatch(a, "GITHUB_TOKEN not found")
            ELSE IF hasReviewKey
            THEN ApproveOnReview(a, submitted, hasPR, reviewBody, state)
            ELSE ApproveOnComment(a, body, isPR, open)
  /\ UNCHANGED exceptApprove

\* await octokit.rest.repos.checkCollaborator(...): resolves for a
\* collaborator, rejects with status 404 for another user, or fails
ApproveCheckCollaborator ==
  /\ approve.pc = "check"
  /\ \/ approve' = IF approve.collaborator
                   THEN [approve EXCEPT !.pc = "get", !.checked = TRUE]
                   ELSE [approve EXCEPT !.pc = "denyComment"]
     \/ approve' = ApproveCatch(approve, "API error")
  /\ UNCHANGED exceptApprove

\* await octokit.rest.issues.createComment(...) and the return after it
ApproveCreateComment ==
  /\ approve.pc \in {"selfComment", "denyComment"}
  /\ \/ approve' = [ApproveReturn(approve) EXCEPT !.commented = TRUE]
     \/ approve' = ApproveCatch(approve, "API error")
  /\ UNCHANGED exceptApprove

\* applyApproval up to its second await: the labels are read and compared
ApproveGetIssue ==
  /\ approve.pc = "get"
  /\ \/ LET hasApproved == approve.labelled
        IN approve' =
             IF hasApproved /\ ~approve.want THEN [approve EXCEPT !.pc = "remove"]
             ELSE IF ~hasApproved /\ approve.want THEN [approve EXCEPT !.pc = "add"]
             ELSE ApproveReturn(approve)
     \/ approve' = ApproveCatch(approve, "API error")
  /\ UNCHANGED exceptApprove

\* await removeLabel(...) or addLabels(...), the agent calls and the result
ApproveWriteLabel ==
  /\ approve.pc \in {"add", "remove"}
  /\ \/ approve' =
          [approve EXCEPT !.pc = "done",
                          !.labelled = approve.pc = "add",
                          !.added = approve.pc = "add",
                          !.agent = [tookAction(approve.agent) EXCEPT
                                       !.outputs = {"approve_action", "issue_number"}],
                          !.result = [success |-> TRUE, tookAction |-> TRUE,
                                      message |-> IF approve.pc = "add"
                                                  THEN "Added approved label"
                                                  ELSE "Removed approved label"]]
     \/ approve' = ApproveCatch(approve, "API error")
  /\ UNCHANGED exceptApprove

(***************************************************************************)
(* The merge-commit-blocker plugin                                         *)
(***************************************************************************)
\* data.parents.length of a commit
ParentCounts == {1, 2}

\* the commits of a pull request, each by the number of its parents
CommitLists == UNION { [1..n -> ParentCounts] : n \in 0..MaxCommits }

\* the pull request contains a commit with more than one parent
ContainsMergeCommit(commits) == \E i \in 1..Len(commits) : commits[i] > 1

\* isPRActionRelevant of merge-commit-blocker.ts
BlockerIsPRActionRelevant(action) == action \in {"opened", "reopened", "synchronize"}

\* what a successful addLabels or removeLabel call does to the labels on GitHub
PullApply(c, labels) ==
  IF c.call = "addLabels" THEN labels \cup {c.name} ELSE labels \ {c.name}

PullNoAction == [success |-> TRUE, tookAction |-> FALSE, message |-> "<undefined>"]

\* the catch block of a pull-request handler whose record is h:
\* agent.setFailed(errorMessage) and a failed result
PullCatch(h, message) ==
  [h EXCEPT !.pc = "done",
            !.agent = setFailed(h.agent, message),
            !.result = [success |-> FALSE, tookAction |-> FALSE, message |-> message]]

\* agent.tookAction(), the agent.setOutput calls and the result of a branch
\* that took action
PullTookAction(h, names, message) ==
  [h EXCEPT !.pc = "done",
            !.agent = [tookAction(h.agent) EXCEPT !.outputs = names],
            !.result = [success |-> TRUE, tookAction |-> TRUE, message |-> message]]

\* one pass of the loop of hasMergeCommits: getCommit succeeded (ok) or threw;
\* a commit with more than one parent returns true, a throw is logged and
\* the loop goes on, and the end of the list returns false
hasMergeCommitsStep(b, ok) ==
  IF ok /\ b.commits[b.next] > 1
  THEN [b EXCEPT !.exist = TRUE, !.pc = "get"]
  ELSE IF b.next = Len(b.commits)
  THEN [b EXCEPT !.exist = FALSE, !.pc = "get", !.next = b.next + 1]
  ELSE [b EXCEPT !.next = b.next + 1]

\* the handler is called and runs up to its first await or return
BlockerReceive ==
  /\ blocker.pc = "idle"
  /\ blocker' =
       IF ~BlockerIsPRActionRelevant(pull.action)
       THEN [blocker EXCEPT !.pc = "done", !.result = PullNoAction]
       ELSE IF ~pull.token
       THEN PullCatch([blocker EXCEPT !.relevant = TRUE], "GITHUB_TOKEN not found")
       ELSE [blocker EXCEPT !.pc = "list", !.relevant = TRUE]
  /\ UNCHANGED <<exceptBlocker, pull>>

\* await octokit.rest.pulls.listCommits(...): the pages of commits, here one
\* page shorter than perPage
BlockerListCommits ==
  /\ blocker.pc = "list"
  /\ \/ blocker' = [blocker EXCEPT !.commits = pull.commits, !.next = 1,
                                   !.exist = FALSE,
                                   !.pc = IF pull.commits = <<>> THEN "get" ELSE "check"]
     \/ blocker' = PullCatch(blocker, "API error")
  /\ UNCHANGED <<exceptBlocker, pull>>

\* await octokit.rest.repos.getCommit(...) inside hasMergeCommits
BlockerGetCommit ==
  /\ blocker.pc = "check"
  /\ \E ok \in BOOLEAN : blocker' = hasMergeCommitsStep(blocker, ok)
  /\ UNCHANGED <<exceptBlocker, pull>>

\* the label call of the case the handler takes, given the labels read
BlockerCalls(labels, exist) ==
  LET hasLabel == MERGE_COMMITS_LABEL \in labels
  IN IF hasLabel /\ ~exist
     THEN << [call |-> "removeLabel", name |-> MERGE_COMMITS_LABEL] >>
     ELSE IF ~hasLabel /\ exist
     THEN << [call |-> "addLabels", name |-> MERGE_COMMITS_LABEL] >>
     ELSE <<>>

\* await octokit.rest.issues.get(...), hasLabel and the choice of the case
BlockerGetIssue ==
  /\ blocker.pc = "get"
  /\ \/ LET plan == BlockerCalls(pull.labels, blocker.exist)
            b == [blocker EXCEPT !.read = TRUE, !.labels = pull.labels, !.plan = plan]
        IN blocker' =
             IF plan = <<>> THEN [b EXCEPT !.pc = "done", !.result = PullNoAction]
             ELSE IF plan[1].call = "removeLabel" THEN [b EXCEPT !.pc = "remove"]
             ELSE [b EXCEPT !.pc = "add"]
     \/ blocker' = PullCatch(blocker, "API error")
  /\ UNCHANGED <<exceptBlocker, pull>>

\* case 1: await octokit.rest.issues.removeLabel(...)
BlockerRemoveLabel ==
  /\ blocker.pc = "remove"
  /\ LET c == blocker.plan[1]
     IN \/ /\ pull' = [pull EXCEPT !.labels = PullApply(c, pull.labels)]
           /\ blocker' = [blocker EXCEPT !.pc = "cleanup",
                                         !.calls = Append(blocker.calls, c)]
        \/ /\ blocker' = PullCatch(blocker, "API error")
           /\ UNCHANGED pull
  /\ UNCHANGED exceptBlocker

\* await deleteOldComments(...), which catches what its calls throw, then
\* the agent calls and the result of case 1
BlockerDeleteOldComments ==
  /\ blocker.pc = "cleanup"
  /\ blocker' = PullTookAction(blocker, {"merge_commit_blocker_action", "issue_number"},
                               "Removed label")
  /\ UNCHANGED <<exceptBlocker, pull>>

\* case 2: await octokit.rest.issues.addLabels(...)
BlockerAddLabels ==
  /\ blocker.pc = "add"
  /\ LET c == blocker.plan[1]
     IN \/ /\ pull' = [pull EXCEPT !.labels = PullApply(c, pull.labels)]
           /\ blocker' = [blocker EXCEPT !.pc = "comment",
                                         !.calls = Append(blocker.calls, c)]
        \/ /\ blocker' = PullCatch(blocker, "API error")
           /\ UNCHANGED pull
  /\ UNCHANGED exceptBlocker

\* case 2: await octokit.rest.issues.createComment(...), then the agent
\* calls and the result
BlockerCreateComment ==
  /\ blocker.pc = "comment"
  /\ \/ blocker' = PullTookAction(blocker, {"merge_commit_blocker_action", "issue_number"},
                                  "Added label")
     \/ blocker' = PullCatch(blocker, "API error")
  /\ UNCHANGED <<exceptBlocker, pull>>

(***************************************************************************)
(* The size plugin                                                         *)
(***************************************************************************)
\* additions + deletions of a file of a pull request
FileChanges == {9, 10, 20, 90, 400, 500}

\* the files of a pull request, each by its changed lines
FileLists == UNION { [1..n -> FileChanges] : n \in 0..MaxFiles }

\* per_page of the one listFiles call
PerPage == 100

\* the response of listFiles: the first page of the files
listFiles(files) ==
  IF Len(files) <= PerPage THEN files ELSE SubSeq(files, 1, PerPage)

\* totalChanges += file.additions + file.deletions, over the files
RECURSIVE TotalChanges(_)
TotalChanges(files) ==
  IF files = <<>> THEN 0 ELSE Head(files) + TotalChanges(Tail(files))

\* bucket(lineCount, DEFAULT_SIZES), as the index of the enum Size from 1
bucket(lineCount) ==
  IF lineCount < 10 THEN 1
  ELSE IF lineCount < 30 THEN 2
  ELSE IF lineCount < 100 THEN 3
  ELSE IF lineCount < 500 THEN 4
  ELSE IF lineCount < 1000 THEN 5
  ELSE 6

sizeToLabel(s) == IF s \in 1..Len(SIZE_LABELS) THEN SIZE_LABELS[s] ELSE SIZE_LABELS[1]

isPRChanged(action) == action \in {"opened", "reopened", "synchronize", "edited"}

\* label.startsWith(LABEL_PREFIX)
StartsWithSizePrefix(label) == label \in SizeLabelSet

\* variant: every label other than the new one is taken for an old size label
OldSizeLabelsAny(labels, newLabel) ==
  LET IsOld(l) == l \in labels /\ l # newLabel
  IN SelectSeq(PULL_LABELS, IsOld)

\* the labels the removal loop calls removeLabel for: the labels read that
\* start with the prefix and are not the new label
OldSizeLabels(labels, newLabel) ==
  LET IsOld(l) == l \in labels /\ StartsWithSizePrefix(l) /\ l # newLabel
  IN SelectSeq(PULL_LABELS, IsOld)

\* the label calls of the handler, given the labels read: a removeLabel for
\* each old size label, then addLabels unless the labels read held the new one
SizeCalls(labels, newLabel) ==
  LET old == OldSizeLabels(labels, newLabel)
  IN [i \in 1..Len(old) |-> [call |-> "removeLabel", name |-> old[i]]]
       \o (IF newLabel \in labels THEN <<>>
           ELSE << [call |-> "addLabels", name |-> newLabel] >>)

\* the next call is made, or none is left: the labels read held the new
\* label and the handler returns without action
SizeAfterCall(s) ==
  IF s.todo = <<>> THEN [s EXCEPT !.pc = "done", !.result = PullNoAction]
  ELSE IF Head(s.todo).call = "removeLabel" THEN [s EXCEPT !.pc = "remove"]
  ELSE [s EXCEPT !.pc = "add"]

\* the handler is called and runs up to its first await or return
SizeReceive ==
  /\ size.pc = "idle"
  /\ size' =
       IF ~isPRChanged(pull.action)
       THEN [size EXCEPT !.pc = "done", !.result = PullNoAction]
       ELSE IF ~pull.token
       THEN PullCatch([size EXCEPT !.relevant = TRUE], "GITHUB_TOKEN not found")
       ELSE [size EXCEPT !.pc = "files", !.relevant = TRUE]
  /\ UNCHANGED <<exceptSize, pull>>

\* await octokit.rest.pulls.listFiles(...), the sum and the new label
SizeListFiles ==
  /\ size.pc = "files"
  /\ \/ LET total == TotalChanges(listFiles(pull.files))
        IN size' = [size EXCEPT !.pc = "get", !.total = total,
                                !.newLabel = sizeToLabel(bucket(total))]
     \/ size' = PullCatch(size, "API error")
  /\ UNCHANGED <<exceptSize, pull>>

\* await octokit.rest.issues.get(...): the labels are read once
SizeGetIssue ==
  /\ size.pc = "get"
  /\ \/ LET plan == SizeCalls(pull.labels, size.newLabel)
        IN size' = SizeAfterCall([size EXCEPT !.read = TRUE, !.labels = pull.labels,
                                              !.plan = plan, !.todo = plan])
     \/ size' = PullCatch(size, "API error")
  /\ UNCHANGED <<exceptSize, pull>>

\* await octokit.rest.issues.removeLabel(...) in the loop: the call succeeds,
\* or it throws and the error is logged and ignored
SizeRemoveLabel ==
  /\ size.pc = "remove"
  /\ LET c == Head(size.todo)
         rest == [size EXCEPT !.todo = Tail(size.todo)]
     IN \/ /\ pull' = [pull EXCEPT !.labels = PullApply(c, pull.labels)]
           /\ size' = SizeAfterCall([rest EXCEPT !.calls = Append(size.calls, c)])
        \/ /\ size' = SizeAfterCall(rest)
           /\ UNCHANGED pull
  /\ UNCHANGED exceptSize

\* await octokit.rest.issues.addLabels(...), then the agent calls and the result
SizeAddLabels ==
  /\ size.pc = "add"
  /\ LET c == Head(size.todo)
     IN \/ /\ pull' = [pull EXCEPT !.labels = PullApply(c, pull.labels)]
           /\ size' = PullTookAction([size EXCEPT !.todo = Tail(size.todo),
                                                  !.calls = Append(size.calls, c)],
                                     {"size_label", "size_lines", "issue_number"},
                                     "Added label")
        \/ /\ size' = PullCatch(size, "API error")
           /\ UNCHANGED pull
  /\ UNCHANGED exceptSize

(***************************************************************************)
(* The wip plugin                                                          *)
(***************************************************************************)
\* isPRActionRelevant of wip.ts
WipIsPRActionRelevant(action) ==
  action \in {"opened", "reopened", "edited", "ready_for_review", "converted_to_draft"}

\* the label call of the branch the handler takes, given the labels read
WipCalls(labels, needsLabel) ==
  LET hasLabel == WIP_LABEL \in labels
  IN IF needsLabel /\ ~hasLabel THEN << [call |-> "addLabels", name |-> WIP_LABEL] >>
     ELSE IF ~needsLabel /\ hasLabel THEN << [call |-> "removeLabel", name |-> WIP_LABEL] >>
     ELSE <<>>

\* the handler is called and runs up to its first await or return
WipReceive ==
  /\ wip.pc = "idle"
  /\ wip' =
       IF ~WipIsPRActionRelevant(pull.action)
       THEN [wip EXCEPT !.pc = "done", !.result = PullNoAction]
       ELSE IF ~pull.token
       THEN PullCatch([wip EXCEPT !.relevant = TRUE], "GITHUB_TOKEN not found")
       ELSE [wip EXCEPT !.pc = "get", !.relevant = TRUE]
  /\ UNCHANGED <<exceptWip, pull>>

\* await octokit.rest.issues.get(...), hasLabel, needsLabel and the choice
\* of the branch
WipGetIssue ==
  /\ wip.pc = "get"
  /\ \/ LET plan == WipCalls(pull.labels, pull.wip)
            w == [wip EXCEPT !.read = TRUE, !.labels = pull.labels, !.plan = plan]
        IN wip' = IF plan = <<>> THEN [w EXCEPT !.pc = "done", !.result = PullNoAction]
                  ELSE [w EXCEPT !.pc = "call"]
     \/ wip' = PullCatch(wip, "API error")
  /\ UNCHANGED <<exceptWip, pull>>

\* await octokit.rest.issues.addLabels(...) or removeLabel(...), then the
\* agent calls and the result
WipLabelCall ==
  /\ wip.pc = "call"
  /\ LET c == wip.plan[1]
     IN \/ /\ pull' = [pull EXCEPT !.labels = PullApply(c, pull.labels)]
           /\ wip' = PullTookAction([wip EXCEPT !.calls = Append(wip.calls, c)],
                                    {"wip_action", "issue_number"},
                                    IF c.call = "addLabels" THEN "Added label"
                                    ELSE "Removed label")
        \/ /\ wip' = PullCatch(wip, "API error")
           /\ UNCHANGED pull
  /\ UNCHANGED exceptWip

(***************************************************************************)
(* The pony plugin                                                         *)
(***************************************************************************)
MAX_PONIES == 5

\* the lines of a comment body that PONY_REGEX matches, each by whether it
\* names tags (match[1])
PonyRequests == UNION { [1..n -> BOOLEAN] : n \in 0..MaxLines }

\* Array.from(matches).slice(0, MAX_PONIES)
PonySlice(ms) == IF Len(ms) <= MAX_PONIES THEN ms ELSE SubSeq(ms, 1, MAX_PONIES)

\* the loop has ended: a response was built or not
PonyAfterLoop(p) ==
  IF p.next > Len(p.matches)
  THEN [p EXCEPT !.pc = IF p.built > 0 THEN "post" ELSE "apologise"]
  ELSE p

\* the handler is called and runs up to its first await or return
PonyReceive ==
  /\ pony.pc = "idle"
  /\ \E hasBody \in BOOLEAN, ms \in PonyRequests, token \in BOOLEAN, hasNumber \in BOOLEAN :
       pony' =
         IF ~hasBody \/ PonySlice(ms) = <<>>
         THEN [pony EXCEPT !.pc = "done", !.result = PullNoAction]
         ELSE IF ~token
         THEN PullCatch([pony EXCEPT !.matches = PonySlice(ms)], "GITHUB_TOKEN not found")
         ELSE IF ~hasNumber
         THEN PullCatch([pony EXCEPT !.matches = PonySlice(ms)],
                        "No issue or pull request number found")
         ELSE [pony EXCEPT !.pc = "fetch", !.matches = PonySlice(ms)]
  /\ UNCHANGED exceptPony

\* one pass of the loop: await fetchPonyImage(tags, logger) returns the
\* markdown of an image, or throws and the error is logged
PonyFetch ==
  /\ pony.pc = "fetch"
  /\ LET p == [pony EXCEPT !.tagsSpecified = pony.tagsSpecified \/ pony.matches[pony.next],
                           !.next = pony.next + 1]
     IN \/ pony' = PonyAfterLoop([p EXCEPT !.built = pony.built + 1])
        \/ pony' = PonyAfterLoop(p)
  /\ UNCHANGED exceptPony

\* responseBuilder.length > 0: await createComment(...), then the agent
\* calls and the result
PonyCreateComment ==
  /\ pony.pc = "post"
  /\ \/ pony' = PullTookAction(pony, {"pony_posted", "issue_number"}, "Posted pony image(s)")
     \/ pony' = PullCatch(pony, "API error")
  /\ UNCHANGED exceptPony

\* no image was fetched: await createComment(...) with the error text, then
\* the result; the agent is not called
PonyCreateErrorComment ==
  /\ pony.pc = "apologise"
  /\ \/ pony' = [pony EXCEPT !.pc = "done",
                             !.result = [success |-> FALSE, tookAction |-> TRUE,
                                         message |-> "Could not find a valid pony image"]]
     \/ pony' = PullCatch(pony, "API error")
  /\ UNCHANGED exceptPony

(***************************************************************************)
(* The assign plugin                                                       *)
(***************************************************************************)
\* a comment body, by the commands assignRe and ccRe find in it
AssignBodies == [unassign : BOOLEAN, assign : BOOLEAN, uncc : BOOLEAN, cc : BOOLEAN]

\* the API calls for the matches of assignRe: every match names a login or
\* stands for the commenter, so a list is empty only without a match
AssigneeCalls(body) ==
  (IF body.unassign THEN <<"removeAssignees">> ELSE <<>>)
    \o (IF body.assign THEN <<"addAssignees">> ELSE <<>>)

\* the API calls for the matches of ccRe, made for pull requests only
ReviewerCalls(body, isPR) ==
  IF isPR
  THEN (IF body.uncc THEN <<"removeRequestedReviewers">> ELSE <<>>)
         \o (IF body.cc THEN <<"requestReviewers">> ELSE <<>>)
  ELSE <<>>

\* the /cc part is entered, or the handler returns
AssignAfterAssignees(a) ==
  IF a.reviewers # <<>>
  THEN [a EXCEPT !.pc = "reviewers", !.ops = a.reviewers]
  ELSE [a EXCEPT !.pc = "done",
                 !.result = [success |-> TRUE,
                             tookAction |-> a.assignTookAction \/ a.ccTookAction,
                             message |-> "<undefined>"]]

\* the handler is called and runs up to its first await or return
AssignReceive ==
  /\ assign.pc = "idle"
  /\ \E hasBody \in BOOLEAN, body \in AssignBodies, hasNumber \in BOOLEAN,
        token \in BOOLEAN, isPR \in BOOLEAN :
       assign' =
         IF ~hasBody \/ ~hasNumber
         THEN [assign EXCEPT !.pc = "done", !.result = PullNoAction]
         ELSE IF ~token
         THEN PullCatch(assign, "GITHUB_TOKEN not found")
         ELSE LET a == [assign EXCEPT !.reviewers = ReviewerCalls(body, isPR)]
              IN IF AssigneeCalls(body) # <<>>
                 THEN [a EXCEPT !.pc = "assignees", !.ops = AssigneeCalls(body)]
                 ELSE AssignAfterAssignees(a)
  /\ UNCHANGED exceptAssign

\* await removeAssignees(...) or addAssignees(...); after the last of them
\* agent.tookAction() and the agent.setOutput calls
AssignAssigneesCall ==
  /\ assign.pc = "assignees"
  /\ \/ LET a == [assign EXCEPT !.ops = Tail(assign.ops), !.assignTookAction = TRUE]
        IN assign' =
             IF a.ops = <<>>
             THEN AssignAfterAssignees(
                    [a EXCEPT !.agent = [tookAction(a.agent) EXCEPT
                                           !.outputs = {"assign_action", "issue_number"}]])
             ELSE a
     \/ assign' = PullCatch(assign, "API error")
  /\ UNCHANGED exceptAssign

\* await removeRequestedReviewers(...) or requestReviewers(...); after the
\* last of them the agent calls and the result
AssignReviewersCall ==
  /\ assign.pc = "reviewers"
  /\ \/ LET a == [assign EXCEPT !.ops = Tail(assign.ops), !.ccTookAction = TRUE]
        IN assign' =
             IF a.ops = <<>>
             THEN [a EXCEPT !.pc = "done",
                            !.agent = [tookAction(a.agent) EXCEPT
                                         !.outputs = {"assign_action", "issue_number"}],
                            !.result = [success |-> TRUE, tookAction |-> TRUE,
                                        message |-> "<undefined>"]]
             ELSE a
     \/ assign' = PullCatch(assign, "API error")
  /\ UNCHANGED exceptAssign

(***************************************************************************)
(* Specification                                                           *)
(***************************************************************************)
\* no plugin handler has been called
PluginsIdle ==
  /\ stage = StageIdle
  /\ approve = ApproveIdle
  /\ blocker = BlockerIdle
  /\ size = SizeIdle
  /\ wip = WipIdle
  /\ pony = PonyIdle
  /\ assign = AssignIdle

\* nothing has been constructed, read or called outside the plugins
HostIdle ==
  /\ pc = "idle"
  /\ caller = "none"
  /\ tokenInput = "unread"
  /\ pluginsInput = <<>>
  /\ envToken = "unset"
  /\ eventName = "<none>"
  /\ payload = NoPayload
  /\ registry = <<>>
  /\ enabledPlugins = <<>>
  /\ todo = <<>>
  /\ called = <<>>
  /\ handlers = <<>>
  /\ inv = <<>>
  /\ promises = <<>>
  /\ returned = FALSE
  /\ resultMap = NoMap
  /\ invocations = <<>>
  /\ escaped = FALSE
  /\ outputs = NoOutputs
  /\ failure = NoFailure
  /\ lastReg = [n \in AllNames |-> NotFound]
  /\ agents = <<>>
  /\ objects = <<>>
  /\ held = <<>>
  /\ hist = <<>>
  /\ view = NoView

Init ==
  /\ HostIdle
  /\ PluginsIdle
  /\ pull = NoPull

Next ==
  \/ Register
  \/ handleIssueEvent
  \/ handlePullRequestEvent
  \/ handlePushEvent
  \/ handleIssueCommentEvent
  \/ handleReviewEvent
  \/ handleGenericCommentEvent
  \/ StartHandler
  \/ \E i \in 1..Len(inv) : HandlerReturns(i)
  \/ \E i \in 1..Len(inv) : HandlerThrows(i)
  \/ Join
  \/ DispatchStart
  \/ GetToken
  \/ RegisterPlugins
  \/ Validate
  \/ DemuxEvent
  \/ Emit

Spec == Init /\ [][Next]_vars

\* every started handler settles at some time, and the steps the event loop
\* takes by itself (the calls of map, the resumption after the await, the
\* code after demuxEvent) are taken
Settling ==
  /\ WF_vars(StartHandler)
  /\ WF_vars(Join)
  /\ WF_vars(DemuxEvent)
  /\ WF_vars(Emit)
  /\ \A i \in 1..Len(BuiltInPlugins) : WF_vars(HandlerReturns(i) \/ HandlerThrows(i))

\* one run of EventDispatcher.dispatch()
DispatchNext ==
  \/ DispatchStart
  \/ GetToken
  \/ RegisterPlugins
  \/ Validate
  \/ DemuxEvent
  \/ StartHandler
  \/ \E i \in 1..Len(inv) : HandlerReturns(i)
  \/ \E i \in 1..Len(inv) : HandlerThrows(i)
  \/ Join
  \/ Emit

DispatchSpec == Init /\ [][DispatchNext]_vars

SettlingSpec == DispatchSpec /\ Settling

\* what Promise.allSettled can hand to the fold for one callback: fulfilled
\* with a returned or a synthesized result, or rejected
SettledOutcomes ==
  { [status |-> "fulfilled", result |-> r] : r \in Returns }
    \cup { [status |-> "fulfilled",
            result |-> [success |-> FALSE, tookAction |-> FALSE, message |-> "boom"]],
           [status |-> "rejected", result |-> NoResult] }

\* lists of up to MaxSettled distinct plugin names
SettledNames ==
  { ns \in UNION { [1..n -> {TestNames[i] : i \in 1..3}] : n \in 0..MaxSettled } :
      \A i, j \in 1..Len(ns) : ns[i] = ns[j] => i = j }

\* handleGenericCommentEvent at its await, every promise settled
FoldInit ==
  /\ \E ns \in SettledNames : \E os \in [1..Len(ns) -> SettledOutcomes] :
       LET plugins == [i \in 1..Len(ns) |->
                         [name |-> ns[i], handlers |-> {"genericComment"}, config |-> "absent"]]
       IN /\ registry = plugins
          /\ lastReg = [n \in AllNames |->
                          IF \E i \in 1..Len(ns) : ns[i] = n
                          THEN [name |-> n, handlers |-> {"genericComment"}, config |-> "absent"]
                          ELSE NotFound]
          /\ handlers = getGenericCommentHandlers(plugins)
          /\ promises = [i \in 1..Len(ns) |->
                           [status |-> os[i].status, pluginName |-> ns[i],
                            result |-> os[i].result]]
          /\ inv = [i \in 1..Len(ns) |->
                      [plugin |-> ns[i],
                       state |-> IF os[i].status = "fulfilled" /\ os[i].result \in Returns
                                 THEN "returned" ELSE "threw",
                       ret |-> IF os[i].status = "fulfilled" /\ os[i].result \in Returns
                               THEN os[i].result ELSE NoResult,
                       thrown |-> IF os[i].status = "fulfilled" /\ os[i].result \in Returns
                                  THEN NoThrown ELSE [isError |-> TRUE, message |-> "boom"],
                       sync |-> FALSE, agent |-> i, calls |-> i]]
          /\ invocations = [i \in 1..Len(ns) |-> <<"genericComment", ns[i]>>]
          /\ agents = [i \in 1..Len(ns) |-> PluginAgentImpl(i)]
          /\ objects = [i \in 1..Len(ns) |-> EmptyObject]
          /\ hist = [i \in 1..Len(ns) |-> NoCalls]
  /\ pc = "fanout"
  /\ caller = "direct"
  /\ tokenInput = "unread"
  /\ pluginsInput = <<>>
  /\ envToken = "unset"
  /\ eventName = "<none>"
  /\ payload = NoPayload
  /\ enabledPlugins = <<>>
  /\ todo = <<>>
  /\ called = <<"genericComment">>
  /\ returned = FALSE
  /\ resultMap = NoMap
  /\ escaped = FALSE
  /\ outputs = NoOutputs
  /\ failure = NoFailure
  /\ held = <<>>
  /\ view = NoView
  /\ PluginsIdle
  /\ pull = NoPull

\* the await resumes and the settled results are folded
FoldNext == Join

FoldSpec == FoldInit /\ [][FoldNext]_vars

\* a registry whose plugins are registered, changed and queried in any order
RegistryNext ==
  \/ RegisterQueried
  \/ SetEnabled
  \/ QueryEnabled
  \/ QueryHandlers

RegistrySpec == Init /\ [][RegistryNext]_vars

\* one PluginAgentImpl and its caller
AgentNext ==
  \/ Construct
  \/ AgentSetOutput
  \/ AgentTookAction
  \/ AgentSetFailed
  \/ AgentGetOutputs
  \/ ModifyReturned

AgentSpec == Init /\ [][AgentNext]_vars

\* one call of the stage plugin's genericComment handler
StageNext ==
  \/ StageReceive
  \/ StageGetIssue
  \/ StageNextMatch
  \/ StageApiCall
  \/ StageReturn

StageSpec == Init /\ [][StageNext]_vars

\* one call of the approve plugin's genericComment handler
ApproveNext ==
  \/ ApproveReceive
  \/ ApproveCheckCollaborator
  \/ ApproveCreateComment
  \/ ApproveGetIssue
  \/ ApproveWriteLabel

ApproveSpec == Init /\ [][ApproveNext]_vars

\* two enabled plugins with a generic comment handler are registered
FanOutPlugins ==
  << [name |-> TestNames[1], handlers |-> {"issueComment", "pullRequest", "genericComment"},
      config |-> "absent"],
     [name |-> TestNames[2], handlers |-> {"issueComment", "pullRequest", "genericComment"},
      config |-> "true"] >>

FanOutInit ==
  /\ pc = "idle"
  /\ caller = "direct"
  /\ tokenInput = "unread"
  /\ pluginsInput = <<>>
  /\ envToken = "unset"
  /\ eventName = "<none>"
  /\ payload = NoPayload
  /\ registry = register(register(<<>>, FanOutPlugins[1]), FanOutPlugins[2])
  /\ enabledPlugins = <<>>
  /\ todo = <<>>
  /\ called = <<>>
  /\ handlers = <<>>
  /\ inv = <<>>
  /\ promises = <<>>
  /\ returned = FALSE
  /\ resultMap = NoMap
  /\ invocations = <<>>
  /\ escaped = FALSE
  /\ outputs = NoOutputs
  /\ failure = NoFailure
  /\ lastReg = [n \in AllNames |->
                  IF n = TestNames[1] THEN FanOutPlugins[1]
                  ELSE IF n = TestNames[2] THEN FanOutPlugins[2] ELSE NotFound]
  /\ agents = <<>>
  /\ objects = <<>>
  /\ held = <<>>
  /\ hist = <<>>
  /\ view = NoView
  /\ PluginsIdle
  /\ pull = NoPull

\* handleGenericCommentEvent with handlers that use their agents
FanOutNext ==
  \/ handleGenericCommentEvent
  \/ StartHandler
  \/ \E i \in 1..Len(inv) : HandlerSetsOutput(i)
  \/ \E i \in 1..Len(inv) : HandlerTookAction(i)
  \/ \E i \in 1..Len(inv) : HandlerSetsFailed(i)
  \/ \E i \in 1..Len(inv) : HandlerReturns(i)
  \/ \E i \in 1..Len(inv) : HandlerThrows(i)
  \/ Join

FanOutSpec == FanOutInit /\ [][FanOutNext]_vars

\* a pull request event is delivered for a pull request drawn from prs
PullInit(prs) ==
  /\ HostIdle
  /\ PluginsIdle
  /\ pull \in prs

\* pull requests and events for the merge-commit-blocker plugin
BlockerPulls ==
  { [action |-> a, token |-> t, labels |-> ls, initial |-> ls, commits |-> cs,
     files |-> <<>>, wip |-> FALSE] :
      a \in PullActions, t \in BOOLEAN,
      ls \in SUBSET {MERGE_COMMITS_LABEL, OtherLabel}, cs \in CommitLists }

\* one call of the merge-commit-blocker plugin's pullRequest handler
BlockerNext ==
  \/ BlockerReceive
  \/ BlockerListCommits
  \/ BlockerGetCommit
  \/ BlockerGetIssue
  \/ BlockerRemoveLabel
  \/ BlockerDeleteOldComments
  \/ BlockerAddLabels
  \/ BlockerCreateComment

BlockerSpec == PullInit(BlockerPulls) /\ [][BlockerNext]_vars

\* pull requests and events for the size plugin
SizePulls ==
  { [action |-> a, token |-> t, labels |-> ls, initial |-> ls, commits |-> <<>>,
     files |-> fs, wip |-> FALSE] :
      a \in PullActions, t \in BOOLEAN,
      ls \in SUBSET {"size/XS", "size/M", "size/XXL", OtherLabel}, fs \in FileLists }

\* one call of the size plugin's pullRequest handler
SizeNext ==
  \/ SizeReceive
  \/ SizeListFiles
  \/ SizeGetIssue
  \/ SizeRemoveLabel
  \/ SizeAddLabels

SizeSpec == PullInit(SizePulls) /\ [][SizeNext]_vars

\* one call of the pony plugin's genericComment handler and one of the
\* assign plugin's
ReplyNext ==
  \/ PonyReceive
  \/ PonyFetch
  \/ PonyCreateComment
  \/ PonyCreateErrorComment
  \/ AssignReceive
  \/ AssignAssigneesCall
  \/ AssignReviewersCall

ReplySpec == Init /\ [][ReplyNext]_vars

\* one call of the wip plugin's pullRequest handler
WipNext ==
  \/ WipReceive
  \/ WipGetIssue
  \/ WipLabelCall

\* pull requests and events delivered to the three pullRequest handlers
SharedPulls ==
  { [action |-> a, token |-> t, labels |-> ls, initial |-> ls, commits |-> cs,
     files |-> fs, wip |-> w] :
      a \in {"opened", "edited", "synchronize"}, t \in BOOLEAN,
      ls \in SUBSET {MERGE_COMMITS_LABEL, WIP_LABEL, "size/XS", "size/M"},
      cs \in {<<>>, <<1>>, <<1, 2>>}, fs \in {<<9>>, <<20, 90>>}, w \in BOOLEAN }

\* the pullRequest handlers of merge-commit-blocker, size and wip are
\* started on one event and their awaits interleave
PullRequestNext ==
  \/ BlockerNext
  \/ SizeNext
  \/ WipNext

PullRequestSpec == PullInit(SharedPulls) /\ [][PullRequestNext]_vars

TypeOK ==
  /\ pc \in {"idle", "getToken", "register", "validate", "demux", "fanout",
             "emit", "done", "failed", "returned", "threw"}
  /\ caller \in {"none", "dispatch", "direct"}
  /\ Len(promises) = Len(inv)
  /\ Len(inv) <= Len(handlers)

(***************************************************************************)
(* Properties                                                              *)
(***************************************************************************)
\* the category of the handle*Event method that is running or ran last
CurrentCategory == called[Len(called)]

\* names of the registered plugins that are not disabled and expose cat
MatchingNames(cat) ==
  { registry[j].name : j \in { k \in 1..Len(registry) :
      registry[k].config # "false" /\ cat \in registry[k].handlers } }

\* the key k of the payload holds a structured object
IsObject(k) == payload.keys[k] = "object"

\* dispatch() has passed the switch of demuxEvent
Demuxed == caller = "dispatch" /\ pc \in {"fanout", "emit", "done"}

SummaryOutputs == {"event_name", "event_guid", "repository", "plugins_enabled"}

\* C1: when a handle*Event method has returned, its map has one entry per
\* enabled plugin exposing the category (N entries for N handlers); the
\* entry of a handler that threw has success = false and the entry of a
\* handler that returned is the value it returned, whatever the order in
\* which the handlers settled and whether they threw before or after
\* suspending.
C1_AllEntries ==
  returned =>
    /\ Len(inv) = Len(handlers)
    /\ {handlers[i].plugin.name : i \in 1..Len(handlers)} = MatchingNames(CurrentCategory)
    /\ Cardinality(MatchingNames(CurrentCategory)) = Len(handlers)
    /\ DOMAIN resultMap = MatchingNames(CurrentCategory)
    /\ \A i \in 1..Len(inv) :
         /\ inv[i].plugin = handlers[i].plugin.name
         /\ inv[i].state \in {"threw", "returned"}
         /\ inv[i].state = "threw" => resultMap[inv[i].plugin].success = FALSE
         /\ inv[i].state = "returned" => resultMap[inv[i].plugin] = inv[i].ret

\* C1 witness: a fan-out of two handlers has returned, the first handler
\* threw after the second one had returned a successful result
C1_Witness ==
  /\ returned
  /\ Len(inv) = 2
  /\ inv[1].state = "threw" /\ ~inv[1].sync
  /\ inv[2].state = "returned" /\ inv[2].ret.success
  /\ Cardinality(DOMAIN resultMap) = 2

\* C2 as stated: the entry of a handler that threw is success = false,
\* tookAction = false and the message of whatever was thrown.
C2_MessageOfThrown ==
  returned =>
    \A i \in 1..Len(inv) :
      inv[i].state = "threw" =>
        /\ inv[i].plugin \in DOMAIN resultMap
        /\ resultMap[inv[i].plugin] =
             [success |-> FALSE, tookAction |-> FALSE, message |-> inv[i].thrown.message]

\* C2 amended: the entry of a handler that threw is success = false,
\* tookAction = false and, as message, the message of the thrown value when
\* it is an instance of Error and 'Unknown error' otherwise.
C2_SynthesizedResult ==
  returned =>
    \A i \in 1..Len(inv) :
      inv[i].state = "threw" =>
        /\ inv[i].plugin \in DOMAIN resultMap
        /\ resultMap[inv[i].plugin] =
             [success |-> FALSE, tookAction |-> FALSE,
              message |-> IF inv[i].thrown.isError
                          THEN inv[i].thrown.message
                          ELSE "Unknown error"]

\* C2 witness: a returned fan-out in which one handler threw an Error and
\* another threw a value that is not an Error
C2_Witness ==
  /\ returned
  /\ \E i, j \in 1..Len(inv) :
       /\ inv[i].state = "threw" /\ inv[i].thrown.isError
       /\ inv[j].state = "threw" /\ ~inv[j].thrown.isError

\* C3: no exception of a handler leaves a handle*Event method or reaches
\* dispatch's catch, and when the method has returned every enabled plugin
\* exposing the category has been invoked, whichever handlers threw.
C3_NoPropagation ==
  /\ ~escaped
  /\ pc # "threw"
  /\ (pc = "failed" => called = <<>>)
  /\ returned =>
       /\ pc \in {"emit", "done", "returned"}
       /\ \A n \in MatchingNames(CurrentCategory) :
            \E k \in 1..Len(invocations) : invocations[k] = <<CurrentCategory, n>>

\* C3 witness: the first handler threw before suspending, the second one was
\* still invoked and threw after suspending, and the method returned
C3_Witness ==
  /\ returned
  /\ Len(inv) = 2
  /\ inv[1].state = "threw" /\ inv[1].sync
  /\ inv[2].state = "threw" /\ ~inv[2].sync
  /\ Len(invocations) = 2

\* C4: when a handle*Event method has returned, every handler it was to
\* start has been started and none of them is still running.
C4_Barrier ==
  returned =>
    /\ Len(inv) = Len(handlers)
    /\ \A i \in 1..Len(inv) : inv[i].state # "running"
    /\ \A i \in 1..Len(promises) : promises[i].status # "pending"

\* C4 witness: a fan-out of two handlers has returned; the first handler
\* failed before suspending, the second settled later, and both had settled
\* when the method returned
C4_Witness ==
  /\ returned
  /\ Len(inv) = 2
  /\ inv[1].state = "threw" /\ inv[1].sync
  /\ inv[2].state = "returned"
  /\ \A i \in 1..Len(promises) : promises[i].status = "fulfilled"

\* C5: once dispatch has passed the demux, issue_comment (comment and issue
\* objects), pull_request_review (review object) and
\* pull_request_review_comment (comment object) have called the
\* generic-comment fan-out and nothing else, issues (issue object) only the
\* issue fan-out and pull_request (pull_request object) only the
\* pull-request fan-out; every handler invoked is a handler of that category.
C5_Demux ==
  Demuxed =>
    /\ (eventName = "issue_comment" /\ IsObject("comment") /\ IsObject("issue"))
         => called = <<"genericComment">>
    /\ (eventName = "pull_request_review" /\ IsObject("review"))
         => called = <<"genericComment">>
    /\ (eventName = "pull_request_review_comment" /\ IsObject("comment"))
         => called = <<"genericComment">>
    /\ (eventName = "issues" /\ IsObject("issue")) => called = <<"issue">>
    /\ (eventName = "pull_request" /\ IsObject("pull_request"))
         => called = <<"pullRequest">>
    /\ \A k \in 1..Len(invocations) :
         /\ invocations[k][1] = called[1]
         /\ invocations[k][1] \in PluginHandlers[invocations[k][2]]

\* C5 witness: an issue_comment event has run the generic-comment handler of
\* the dog plugin and dispatch is complete
C5_Witness ==
  /\ pc = "done"
  /\ eventName = "issue_comment"
  /\ invocations = << <<"genericComment", "dog">> >>

\* C6: one dispatch calls at most one handle*Event method, and all handlers
\* it invokes belong to one category.
C6_OneCategory ==
  caller = "dispatch" =>
    /\ Len(called) <= 1
    /\ todo = <<>>
    /\ \A j, k \in 1..Len(invocations) : invocations[j][1] = invocations[k][1]

\* C6 witness: a pull_request event whose payload also carries a review
\* object has run the two pull-request handlers and nothing else
C6_Witness ==
  /\ pc = "done"
  /\ eventName = "pull_request"
  /\ IsObject("review")
  /\ Len(invocations) = 2

\* no branch of the demux table matches the event name and payload
NoBranchMatches ==
  \/ eventName \notin {"issues", "issue_comment", "pull_request",
                       "pull_request_review", "pull_request_review_comment", "push"}
  \/ eventName = "issues" /\ ~IsObject("issue")
  \/ eventName = "issue_comment" /\ ~(IsObject("comment") /\ IsObject("issue"))
  \/ eventName = "pull_request" /\ ~IsObject("pull_request")
  \/ eventName = "pull_request_review" /\ ~IsObject("review")
  \/ eventName = "pull_request_review_comment" /\ ~IsObject("comment")

\* C7: when dispatch has validated the payload and no demux branch matches,
\* no handler is invoked, no failure is reported, and a completed dispatch
\* has emitted the summary outputs.
C7_NoOp ==
  (caller = "dispatch" /\ payload.kind = "object" /\ NoBranchMatches) =>
    /\ invocations = <<>>
    /\ failure = NoFailure
    /\ pc \in {"demux", "emit", "done"}
    /\ pc = "done" => SummaryOutputs \subseteq DOMAIN outputs

\* C7 witness: a pull_request event whose pull_request key is null has
\* completed, with the pull-request plugins size and wip registered
C7_Witness ==
  /\ pc = "done"
  /\ eventName = "pull_request"
  /\ payload.keys["pull_request"] = "null"
  /\ Len(registry) = 2
  /\ SummaryOutputs \subseteq DOMAIN outputs

\* C8: once dispatch has passed the demux of a push event, the push fan-out
\* is the method that was called, whatever keys the payload has.
C8_PushAlways ==
  (Demuxed /\ eventName = "push") => called = <<"push">>

\* C8 witness: a push event with none of the five keys has completed after
\* the push fan-out was called
C8_Witness ==
  /\ pc = "done"
  /\ eventName = "push"
  /\ payload.keys = NoKeys
  /\ called = <<"push">>

\* C9: when the github-token input is missing, dispatch has failed with an
\* invocation-level failure, no handle*Event method was called, no handler
\* was invoked and nothing was emitted, for every event name.
C9_MissingToken ==
  (caller = "dispatch" /\ tokenInput = "missing") =>
    /\ pc = "failed"
    /\ failure = "Input required and not supplied: github-token"
    /\ called = <<>>
    /\ invocations = <<>>
    /\ DOMAIN outputs = {}

\* C9 witness: a dispatch of an issue_comment event failed on the missing
\* credential
C9_Witness ==
  /\ pc = "failed"
  /\ tokenInput = "missing"
  /\ eventName = "issue_comment"
  /\ failure # NoFailure

\* C10: when the payload dispatch reads is null or a scalar, dispatch has
\* failed with 'Invalid event payload', no handle*Event method was called,
\* no handler was invoked and no output was emitted.
C10_InvalidPayload ==
  (caller = "dispatch" /\ payload.kind \in {"null", "scalar"}) =>
    /\ pc = "failed"
    /\ failure = "Invalid event payload"
    /\ called = <<>>
    /\ invocations = <<>>
    /\ DOMAIN outputs = {}

\* C10 witness: a push event with a null payload failed, with plugins
\* registered
C10_Witness ==
  /\ pc = "failed"
  /\ payload.kind = "null"
  /\ eventName = "push"
  /\ registry # <<>>

\* names of the built-in plugins the parsed plugins input asks for
RequestedBuiltIns ==
  { BuiltInPlugins[i] : i \in { k \in 1..Len(BuiltInPlugins) :
      \E j \in 1..Len(enabledPlugins) : enabledPlugins[j] = BuiltInPlugins[k] } }

RegisteredNames == { registry[i].name : i \in 1..Len(registry) }

C12_NoEscalation ==
  (caller = "dispatch" /\ payload.kind = "object") =>
    /\ failure = NoFailure
    /\ ~escaped
    /\ pc \in {"demux", "fanout", "emit", "done"}
    /\ returned => pc \in {"emit", "done"}
    /\ pc = "done" =>
         /\ SummaryOutputs \subseteq DOMAIN outputs
         /\ outputs["event_name"] = <<eventName>>
         /\ outputs["plugins_enabled"] = enabledPlugins
         /\ \A i \in 1..Len(inv) : inv[i].state \in {"returned", "threw"}
         /\ Len(inv) = Len(handlers)

\* C12 witness: both handlers of a completed dispatch failed, one by
\* throwing and one by returning success = false, and no failure is reported
C12_Witness ==
  /\ pc = "done"
  /\ Len(inv) = 2
  /\ inv[1].state = "threw"
  /\ inv[2].state = "returned" /\ ~inv[2].ret.success
  /\ failure = NoFailure
  /\ SummaryOutputs \subseteq DOMAIN outputs

\* C13: the names in the plugins_enabled output of a completed dispatch are
\* exactly the names of the registered, enabled plugins.
C13_PluginsEnabledIsRegistry ==
  (caller = "dispatch" /\ pc = "done") =>
    { outputs["plugins_enabled"][i] : i \in 1..Len(outputs["plugins_enabled"]) }
      = { registry[i].name : i \in { k \in 1..Len(registry) : registry[k].config # "false" } }

\* positions of the registered plugins that are not disabled and expose kind
MatchingIndexes(kind) ==
  { i \in 1..Len(registry) : registry[i].config # "false" /\ kind \in registry[i].handlers }

\* hs holds, in registration order, one pair per registered plugin that is
\* not disabled and exposes kind, each with that plugin's handler of kind
ExactlyHandlers(hs, kind) ==
  /\ Len(hs) = Cardinality(MatchingIndexes(kind))
  /\ \A i \in MatchingIndexes(kind) :
       LET k == Cardinality({ j \in MatchingIndexes(kind) : j <= i })
       IN /\ hs[k].plugin = registry[i]
          /\ hs[k].handler.owner = registry[i]
          /\ hs[k].handler.kind = kind

\* C14: after any sequence of register calls getEnabled() holds, in
\* registration order, exactly the registered plugins whose config is absent
\* or enabled; a plugin is left out if and only if its config says
\* enabled: false.
C14_EnabledUnlessFalse ==
  LET en == getEnabled(registry)
      kept == { i \in 1..Len(registry) : registry[i].config \in {"absent", "true"} }
  IN /\ Len(en) = Cardinality(kept)
     /\ \A i \in 1..Len(registry) :
          (registry[i].config = "false") <=> ~(\E k \in 1..Len(en) : en[k] = registry[i])
     /\ \A i \in kept : en[Cardinality({ j \in kept : j <= i })] = registry[i]

\* C14 witness: of two registered plugins the one without config is
\* enabled, the one with enabled: false is not
C14_Witness ==
  /\ Len(registry) = 2
  /\ registry[1].config = "false"
  /\ registry[2].config = "absent"
  /\ getEnabled(registry) = <<registry[2]>>

\* C15: each of the six lookups returns exactly the enabled plugins that
\* expose its handler kind, in registration order, each paired with its own
\* handler of that kind, and the handle*Event methods work on that list.
C15_CategoryLookups ==
  /\ ExactlyHandlers(getIssueHandlers(registry), "issue")
  /\ ExactlyHandlers(getPullRequestHandlers(registry), "pullRequest")
  /\ ExactlyHandlers(getPushHandlers(registry), "push")
  /\ ExactlyHandlers(getIssueCommentHandlers(registry), "issueComment")
  /\ ExactlyHandlers(getReviewHandlers(registry), "review")
  /\ ExactlyHandlers(getGenericCommentHandlers(registry), "genericComment")
  /\ called # <<>> => ExactlyHandlers(handlers, CurrentCategory)

\* C15 witness: handlePushEvent runs on a registry whose first plugin is
\* disabled and whose second plugin exposes issue, push and review handlers;
\* the second plugin is the only push handler and is an issue handler too
C15_Witness ==
  /\ pc = "fanout"
  /\ CurrentCategory = "push"
  /\ Len(registry) = 2
  /\ registry[1].config = "false" /\ "push" \in registry[1].handlers
  /\ registry[2].config = "absent" /\ "push" \in registry[2].handlers
  /\ Len(handlers) = 1
  /\ handlers[1].plugin = registry[2]
  /\ Len(getIssueHandlers(registry)) = 1
  /\ getIssueHandlers(registry)[1].plugin = registry[2]

\* C16: the registry holds at most one plugin per name, get(name) returns
\* the plugin last registered under the name or undefined if there is none,
\* and registering a plugin twice leaves the registry as registering it once.
C16_RegisterByName ==
  /\ \A i, j \in 1..Len(registry) : registry[i].name = registry[j].name => i = j
  /\ \A n \in AllNames : get(registry, n) = lastReg[n]
  /\ \A plugin \in TestPlugins :
       /\ register(register(registry, plugin), plugin) = register(registry, plugin)
       /\ Len(register(registry, plugin)) =
            Len(registry) + (IF \E i \in 1..Len(registry) : registry[i].name = plugin.name
                             THEN 0 ELSE 1)

\* C16 witness: two names are registered, get of the first returns the
\* disabled plugin last registered under it, get of a third name finds nothing
C16_Witness ==
  /\ Len(registry) = 2
  /\ registry[1].name = "test-plugin-1"
  /\ get(registry, "test-plugin-1") = lastReg["test-plugin-1"]
  /\ lastReg["test-plugin-1"].config = "false"
  /\ get(registry, "test-plugin-4") = NotFound

\* the agent of the unit-level specification
TheAgent == agents[1]

\* C17: a map returned by getOutputs() holds what the agent's outputs held
\* at the call and what its holder wrote into it since, whatever setOutput
\* calls followed; it is an object of its own, distinct from the agent's
\* outputs and from every other returned map, and writing into it leaves
\* the agent's outputs alone.
C17_OutputsCopy ==
  agents # <<>> =>
    /\ objects[TheAgent.outputs] = hist[1].outputs
    /\ \A k \in 1..Len(held) :
         /\ objects[held[k].ref] = held[k].content
         /\ held[k].ref # TheAgent.outputs
         /\ \A l \in 1..Len(held) : held[k].ref = held[l].ref => k = l

\* C17 witness: two maps were returned, the first before and the second
\* after a setOutput call, and the agent's outputs have changed again since
C17_Witness ==
  /\ Len(held) = 2
  /\ held[1].content = EmptyObject
  /\ held[2].content = [EmptyObject EXCEPT !["key1"] = "value1"]
  /\ objects[agents[1].outputs] = [n \in OutputNames |-> "value2"]
  /\ objects[held[1].ref] = EmptyObject

\* C18: didTakeAction() is false on a new agent and true from the first
\* tookAction() call on, whatever calls follow.
C18_ActionFlag ==
  agents # <<>> => didTakeAction(TheAgent) = hist[1].took


\* C18 witness: tookAction() was called, then setFailed and setOutput
C18_Witness ==
  /\ agents # <<>>
  /\ didTakeAction(TheAgent)
  /\ hasFailed(TheAgent)
  /\ objects[TheAgent.outputs]["key1"] = "value1"

\* C19: hasFailed() is false and getFailureMessage() undefined on a new
\* agent; after setFailed calls hasFailed() is true and getFailureMessage()
\* is the message of the most recent call, the empty message included.
C19_LastFailure ==
  agents # <<>> =>
    /\ getFailureMessage(TheAgent) = hist[1].failed
    /\ hasFailed(TheAgent) <=> hist[1].failed \in FailureMessages
    /\ ~hasFailed(TheAgent) => getFailureMessage(TheAgent) = Undefined


\* C19 witness: the agent has failed with the empty message and took action
C19_Witness ==
  /\ agents # <<>>
  /\ hasFailed(TheAgent)
  /\ getFailureMessage(TheAgent) = ""
  /\ hist[1].failed = ""
  /\ didTakeAction(TheAgent)

\* C20: every handler invocation has an agent and an outputs object of its
\* own, new at the start of the invocation, and what an agent shows is what
\* its own invocation did with it, whatever the other invocations did.
C20_OwnAgent ==
  /\ \A i, j \in 1..Len(inv) :
       i # j => /\ inv[i].agent # inv[j].agent
               /\ agents[inv[i].agent].outputs # agents[inv[j].agent].outputs
  /\ \A i \in 1..Len(inv) :
       LET ag == agents[inv[i].agent]
       IN /\ objects[ag.outputs] = hist[inv[i].calls].outputs
          /\ didTakeAction(ag) = hist[inv[i].calls].took
          /\ getFailureMessage(ag) = hist[inv[i].calls].failed

\* C20 witness: the first handler set an output, took action and failed
\* before the second was started; the second handler's agent shows nothing
C20_Witness ==
  /\ Len(inv) = 2
  /\ inv[1].state = "running"
  /\ objects[agents[inv[1].agent].outputs]["key1"] = "value1"
  /\ didTakeAction(agents[inv[1].agent])
  /\ hasFailed(agents[inv[1].agent])
  /\ objects[agents[inv[2].agent].outputs] = EmptyObject
  /\ ~didTakeAction(agents[inv[2].agent])
  /\ ~hasFailed(agents[inv[2].agent])

\* C21: when a fan-out has returned, the entry of each plugin in the map
\* reflects the final state of the agent of its invocation: the outputs set
\* on the agent, its action-taken flag and its failure message.
C21_AgentFolded ==
  returned =>
    \A i \in 1..Len(inv) :
      LET entry == resultMap[inv[i].plugin]
          ag == agents[inv[i].agent]
      IN /\ didTakeAction(ag) => entry.tookAction
         /\ hasFailed(ag) => (~entry.success /\ entry.message = getFailureMessage(ag))
         /\ "outputs" \in DOMAIN entry
         /\ entry.outputs = objects[ag.outputs]

\* C22: when the stage handler has returned success, the issue carries at
\* most one of the three stage labels.
C22_OneStageLabel ==
  (stage.pc = "done" /\ stage.result.success) =>
    Cardinality(stage.issue \cap StageLabelSet) <= 1

\* C23: the approved label is added only for a user who passed the
\* collaborator check; a user who is not a collaborator never causes the
\* label to be added.
C23_OnlyCollaborators ==
  approve.added => (approve.checked /\ approve.collaborator)

\* C24: in a running fan-out the next handler can be started whatever the
\* state of the handlers started before it, and every running handler can
\* settle whatever the state of the others: an earlier handler that has not
\* settled holds up neither the start nor the settling of a later one.
C24_NoWaiting ==
  pc = "fanout" =>
    /\ Len(inv) < Len(handlers) => ENABLED StartHandler
    /\ \A i \in 1..Len(inv) :
         inv[i].state = "running" => (ENABLED HandlerReturns(i) /\ ENABLED HandlerThrows(i))
    /\ ENABLED Join => Len(inv) = Len(handlers)

\* C24 witness: the second handler has been started and has returned while
\* the first handler is still running and the fan-out has not joined
C24_Witness ==
  /\ pc = "fanout"
  /\ ~returned
  /\ Len(inv) = 2
  /\ inv[1].state = "running"
  /\ inv[2].state = "returned"

\* number of invocations so far of the handler of kind k of the plugin named n
TimesInvoked(k, n) ==
  Cardinality({ j \in 1..Len(invocations) : invocations[j] = <<k, n>> })

\* C25: no (plugin, handler) pair is invoked more than once, whatever its
\* handler returned or threw; when the fan-out has returned every matching
\* pair has been invoked exactly once and has ended in exactly one of
\* returned (its promise carries the returned result) or threw (its promise
\* carries the synthesized failure).
C25_OneShot ==
  /\ \A j \in 1..Len(invocations) : TimesInvoked(invocations[j][1], invocations[j][2]) = 1
  /\ Len(invocations) = Len(inv)
  /\ \A i \in 1..Len(inv) :
       /\ invocations[i] = <<handlers[i].handler.kind, handlers[i].plugin.name>>
       /\ inv[i].state \in {"running", "returned", "threw"}
       /\ inv[i].state = "running" <=> promises[i].status = "pending"
  /\ returned =>
       \A k \in 1..Len(handlers) :
         /\ TimesInvoked(handlers[k].handler.kind, handlers[k].plugin.name) = 1
         /\ inv[k].state \in {"returned", "threw"}
         /\ promises[k].status = "fulfilled"

\* C25 witness: a direct caller's fan-out has returned; its first handler
\* threw, its second returned success = false, each was invoked once
C25_Witness ==
  /\ caller = "direct"
  /\ returned
  /\ Len(inv) = 2
  /\ inv[1].state = "threw"
  /\ inv[2].state = "returned" /\ ~inv[2].ret.success
  /\ Len(invocations) = 2

\* some started handler has not settled
SomeRunning == \E i \in 1..Len(inv) : inv[i].state = "running"

\* C26: while a started handler has not settled the fan-out has not
\* returned, the join cannot happen and dispatch has emitted no output and
\* reported nothing, however long that lasts; and if every started handler
\* settles, a fan-out that was entered returns and a dispatch that entered
\* it emits its outputs.
C26_NoTimeout ==
  /\ [](SomeRunning =>
          /\ pc = "fanout"
          /\ ~returned
          /\ ~ENABLED Join
          /\ DOMAIN outputs = {}
          /\ failure = NoFailure)
  /\ [][SomeRunning => pc' = "fanout"]_vars
  /\ (pc = "fanout") ~> (returned /\ pc = "emit")
  /\ (pc = "fanout") ~> (pc = "done")

\* C26 witness: in a dispatch one handler has settled, the other is still
\* running, and nothing has been emitted
C26_Witness ==
  /\ caller = "dispatch"
  /\ pc = "fanout"
  /\ Len(inv) = 2
  /\ inv[1].state = "returned"
  /\ inv[2].state = "running"
  /\ DOMAIN outputs = {}

\* C27: when the method has returned, the map holds exactly the fulfilled
\* results, each under its plugin's name; a plugin whose promise rejected
\* has no entry, the entries of the others are there whether they come
\* before or after it, and the method has returned normally.
C27_RejectedOmitted ==
  returned =>
    /\ pc = "returned"
    /\ ~escaped
    /\ DOMAIN resultMap =
         { promises[i].pluginName : i \in { k \in 1..Len(promises) :
                                            promises[k].status = "fulfilled" } }
    /\ \A i \in 1..Len(promises) :
         /\ promises[i].status = "fulfilled" =>
              resultMap[promises[i].pluginName] = promises[i].result
         /\ promises[i].status = "rejected" =>
              promises[i].pluginName \notin DOMAIN resultMap

\* C27 witness: the first promise rejected, the second is fulfilled, and the
\* returned map holds the second plugin's entry only
C27_Witness ==
  /\ returned
  /\ Len(promises) = 2
  /\ promises[1].status = "rejected"
  /\ promises[2].status = "fulfilled"
  /\ DOMAIN resultMap = {promises[2].pluginName}

\* C28: in a dispatch the registry changes in one step only, the one at
\* line 94, taken once and before any handle*Event method is entered or any
\* handler started; from then on the registry holds every requested
\* built-in plugin and stays as it is while handlers run and afterwards.
C28_RegistrationFirst ==
  /\ [](caller = "dispatch" /\ pc \in {"validate", "demux", "fanout", "emit", "done"}
          => RegisteredNames = RequestedBuiltIns)
  /\ [][(caller = "dispatch" /\ registry' # registry)
          => (pc = "register" /\ called = <<>> /\ inv = <<>> /\ invocations = <<>>)]_vars
  /\ [][(caller = "dispatch" /\ pc \notin {"getToken", "register"})
          => (pc' # "register" /\ registry' = registry)]_vars

\* C28 witness: a handler of a dispatch is running and both requested
\* plugins are in the registry
C28_Witness ==
  /\ caller = "dispatch"
  /\ pc = "fanout"
  /\ Len(inv) = 1
  /\ inv[1].state = "running"
  /\ RegisteredNames = {"dog", "size"}
  /\ Len(registry) = 2

\* positions in reg of the plugins that are not disabled
EnabledIndexes(reg) == { i \in 1..Len(reg) : reg[i].config # "false" }

\* positions in reg of the plugins that are not disabled and expose kind
HandlerIndexes(reg, kind) ==
  { i \in 1..Len(reg) : reg[i].config # "false" /\ kind \in reg[i].handlers }

\* C29: the result of every query, getEnabled() or a per-category lookup,
\* is computed from the registry as it is when the query is made: it holds
\* the plugins registered and the enabled flags set up to that moment,
\* whatever an earlier query returned.
C29_Recomputed ==
  /\ view.query = "enabled" =>
       /\ Len(view.result) = Cardinality(EnabledIndexes(view.at))
       /\ \A i \in EnabledIndexes(view.at) :
            view.result[Cardinality({ j \in EnabledIndexes(view.at) : j <= i })] = view.at[i]
  /\ view.query \in Categories =>
       /\ Len(view.result) = Cardinality(HandlerIndexes(view.at, view.query))
       /\ \A i \in HandlerIndexes(view.at, view.query) :
            view.result[Cardinality({ j \in HandlerIndexes(view.at, view.query) : j <= i })]
              = [plugin |-> view.at[i], handler |-> [owner |-> view.at[i], kind |-> view.query]]

\* C29 witness: the last getEnabled() query was made on a registry of two
\* plugins, one disabled, that has since been changed: the disabled plugin
\* was enabled and a later query would return both
C29_Witness ==
  /\ view.query = "enabled"
  /\ Len(view.at) = 2
  /\ Len(view.result) = 1
  /\ view.at # registry
  /\ Len(getEnabled(registry)) = 2

\* C30: for every payload dispatch reads, isValidEvent holds iff the payload
\* is a non-null object; for a valid payload each of the five has*
\* predicates has a boolean value and holds iff its own key holds a non-null
\* object, whatever the other keys hold; and evaluating them leaves the
\* payload as it was.
C30_ValidatorPredicates ==
  /\ [](payload.kind # "unread" =>
          /\ isValidEvent(payload) \in BOOLEAN
          /\ isValidEvent(payload) <=> payload.kind = "object"
          /\ isValidEvent(payload) =>
               /\ {hasRepository(payload), hasIssue(payload), hasPullRequest(payload),
                   hasComment(payload), hasReview(payload)} \subseteq BOOLEAN
               /\ hasRepository(payload) <=> payload.keys["repository"] = "object"
               /\ hasIssue(payload) <=> payload.keys["issue"] = "object"
               /\ hasPullRequest(payload) <=> payload.keys["pull_request"] = "object"
               /\ hasComment(payload) <=> payload.keys["comment"] = "object"
               /\ hasReview(payload) <=> payload.keys["review"] = "object")
  /\ [][payload.kind # "unread" => payload' = payload]_vars

\* C30 witness: dispatch has validated a payload whose issue key is null,
\* whose pull_request key is a scalar, whose review key is absent and whose
\* comment and repository keys hold objects
C30_Witness ==
  /\ pc = "demux"
  /\ payload.kind = "object"
  /\ payload.keys["issue"] = "null"
  /\ payload.keys["pull_request"] = "scalar"
  /\ payload.keys["review"] = "absent"
  /\ payload.keys["comment"] = "object"
  /\ payload.keys["repository"] = "object"
  /\ hasComment(payload) /\ ~hasIssue(payload) /\ ~hasPullRequest(payload)

\* the names whose entry differs between two outputs objects
ChangedNames(o1, o2) == {n \in OutputNames : o1[n] # o2[n]}

\* C31: the three kinds of state of an agent are independent: a setOutput
\* call changes the entry of at most one name and leaves the other entries,
\* the action flag and the failure message as they were; a tookAction call
\* changes only the action flag; a setFailed call changes only the failure
\* message; and no step changes two kinds of state or makes the agent use
\* another outputs object.
C31_Independent ==
  [][agents # <<>> =>
       LET before == objects[TheAgent.outputs]
           after == objects'[agents'[1].outputs]
       IN /\ agents'[1].outputs = TheAgent.outputs
          /\ Cardinality(ChangedNames(before, after)) <= 1
          /\ after # before => agents' = agents
          /\ didTakeAction(agents'[1]) # didTakeAction(TheAgent) =>
               /\ after = before
               /\ getFailureMessage(agents'[1]) = getFailureMessage(TheAgent)
          /\ getFailureMessage(agents'[1]) # getFailureMessage(TheAgent) =>
               /\ after = before
               /\ didTakeAction(agents'[1]) = didTakeAction(TheAgent)
          /\ AgentSetOutput =>
               /\ agents' = agents
               /\ ChangedNames(hist[1].outputs, hist'[1].outputs)
                    = ChangedNames(before, after)
          /\ AgentTookAction =>
               /\ after = before
               /\ didTakeAction(agents'[1])
               /\ getFailureMessage(agents'[1]) = getFailureMessage(TheAgent)
          /\ AgentSetFailed =>
               /\ after = before
               /\ hasFailed(agents'[1])
               /\ didTakeAction(agents'[1]) = didTakeAction(TheAgent)]_vars

\* C31 witness: the agent holds two outputs of different names, the first
\* overwritten by a second setOutput call, and it took action and failed
C31_Witness ==
  /\ agents # <<>>
  /\ objects[TheAgent.outputs] = [key1 |-> "value2", key2 |-> "value1"]
  /\ hist[1].outputs = [key1 |-> "value2", key2 |-> "value1"]
  /\ didTakeAction(TheAgent)
  /\ getFailureMessage(TheAgent) = "Error message"

\* C32: after the merge-commit-blocker handler returns success for a relevant
\* action, the label do-not-merge/contains-merge-commits is on the pull
\* request if and only if the pull request contains a commit with more than
\* one parent, whatever the outcome of the commit lookups.
C32_LabelIffMergeCommit ==
  (blocker.pc = "done" /\ blocker.relevant /\ blocker.result.success) =>
    (MERGE_COMMITS_LABEL \in pull.labels <=> ContainsMergeCommit(pull.commits))

\* C33: after the size handler returns success for a relevant action, the
\* pull request carries exactly one label with the prefix size/, the bucket
\* label of the total changed lines, and the labels that do not start with
\* size/ are the ones it had before.
C33_OneSizeLabel ==
  (size.pc = "done" /\ size.relevant /\ size.result.success) =>
    /\ {l \in pull.labels : StartsWithSizePrefix(l)}
         = {sizeToLabel(bucket(TotalChanges(pull.files)))}
    /\ {l \in pull.labels : ~StartsWithSizePrefix(l)}
         = {l \in pull.initial : ~StartsWithSizePrefix(l)}

\* C34: dispatch never calls handleIssueCommentEvent or handleReviewEvent and
\* never invokes a handler under the issueComment or review category,
\* whatever the event name and payload: for no event does the switch of
\* demuxEvent name one of the two, and the handlers dispatch invokes are
\* those of the categories it called.
C34_NeverIssueCommentOrReview ==
  /\ payload.kind # "unread" =>
       \A i \in 1..Len(demuxEvent(eventName, payload)) :
         demuxEvent(eventName, payload)[i] \notin {"issueComment", "review"}
  /\ caller = "dispatch" =>
       /\ \A i \in 1..Len(called) : called[i] \notin {"issueComment", "review"}
       /\ \A i \in 1..Len(invocations) :
            /\ invocations[i][1] \notin {"issueComment", "review"}
            /\ \E j \in 1..Len(called) : called[j] = invocations[i][1]

\* C34 witness: dispatch has ended for an issue_comment event whose payload
\* holds a comment and an issue; the generic comment handlers were invoked
\* and handleGenericCommentEvent is the only method that was called
C34_Witness ==
  /\ caller = "dispatch"
  /\ pc = "done"
  /\ eventName = "issue_comment"
  /\ hasComment(payload) /\ hasIssue(payload)
  /\ called = <<"genericComment">>
  /\ invocations = <<<<"genericComment", "dog">>>>

\* C35: dispatch never rejects and ends in exactly one of two ways: with
\* the summary outputs emitted and no failure reported, or with one
\* core.setFailed call and no output emitted. A reported failure ends
\* dispatch: nothing is emitted, called or reported after it, and nothing
\* follows the emission of the outputs.
C35_OneTerminalOutcome ==
  /\ [](caller = "dispatch" =>
          /\ ~escaped
          /\ pc \in {"done", "failed"} =>
               (SummaryOutputs \subseteq DOMAIN outputs) # (failure # NoFailure)
          /\ pc = "failed" <=> failure # NoFailure
          /\ pc = "done" <=> SummaryOutputs \subseteq DOMAIN outputs
          /\ pc # "done" => DOMAIN outputs = {})
  /\ [][caller = "dispatch" => pc \notin {"done", "failed"}]_vars

\* C35 witness: a dispatch whose plugins were registered has failed on the
\* payload; the failure is reported and nothing was emitted
C35_Witness ==
  /\ caller = "dispatch"
  /\ pc = "failed"
  /\ failure = "Invalid event payload"
  /\ registry # <<>>
  /\ DOMAIN outputs = {}
  /\ ~escaped

\* C36: in every dispatch the github-token input is written to the
\* GITHUB_TOKEN environment variable before the first handler invocation
\* starts and the variable is not written again: when a handler is started,
\* and from then on, the variable holds the input of this dispatch, whatever
\* the environment held when the process started.
C36_TokenBeforeHandlers ==
  /\ [](caller = "dispatch" =>
          /\ pc \in {"register", "validate", "demux", "fanout", "emit", "done"} =>
               envToken = "set" /\ tokenInput = "present"
          /\ (invocations # <<>> \/ called # <<>>) => envToken = "set")
  /\ [][caller = "dispatch" =>
          /\ envToken = "set" => envToken' = "set"
          /\ Len(invocations') > Len(invocations) => envToken = "set"]_vars

\* C36 witness: a handler invoked by dispatch is running and the variable
\* holds the input
C36_Witness ==
  /\ caller = "dispatch"
  /\ pc = "fanout"
  /\ Len(inv) = 1
  /\ inv[1].state = "running"
  /\ tokenInput = "present"
  /\ envToken = "set"

C38_DefaultAndParsedList ==
  (caller = "dispatch" /\ pc \in {"validate", "demux", "fanout", "emit", "done"}) =>
    /\ pluginsInput = <<"">> =>
         /\ enabledPlugins = <<"dog">>
         /\ enabledPlugins = ParsePlugins(<<"dog">>)
         /\ registry = registerBuiltInPlugins(<<>>, BuiltInPlugins, ParsePlugins(<<"dog">>))
         /\ RegisteredNames = {"dog"}
    /\ pluginsInput = <<"dog", " size ">> => enabledPlugins = <<"dog", "size">>
    /\ pluginsInput = <<"size", "", "wip">> => enabledPlugins = <<"size", "wip">>
    /\ pluginsInput = <<"lgtm", "dog">> => enabledPlugins = <<"lgtm", "dog">>
    /\ pluginsInput = <<"", "">> => enabledPlugins = <<>> /\ registry = <<>>
    /\ pc = "done" => outputs["plugins_enabled"] = enabledPlugins

\* C38 witness: a dispatch without a plugins input has ended; dog alone is
\* registered and reported
C38_Witness ==
  /\ caller = "dispatch"
  /\ pc = "done"
  /\ pluginsInput = <<"">>
  /\ Len(registry) = 1
  /\ registry[1].name = "dog"
  /\ outputs["plugins_enabled"] = <<"dog">>

\* the result a handler returned agrees with what its agent shows
Agrees(h) ==
  h.pc = "done" =>
    /\ h.result.tookAction = didTakeAction(h.agent)
    /\ ~h.result.success <=> hasFailed(h.agent)

\* C39: when a built-in handler has returned, its result agrees with its
\* agent: result.tookAction equals agent.didTakeAction() and result.success
\* is false if and only if agent.hasFailed() is true.
C39_ResultAgreesWithAgent ==
  /\ Agrees(pony)
  /\ Agrees(assign)
  /\ Agrees(stage)
  /\ Agrees(approve)
  /\ Agrees(blocker)
  /\ Agrees(size)
  /\ Agrees(wip)

\* the labels after the label calls that succeeded, made in their order
RECURSIVE ApplyCalls(_, _)
ApplyCalls(calls, labels) ==
  IF calls = <<>> THEN labels
  ELSE ApplyCalls(Tail(calls), PullApply(Head(calls), labels))

\* every order of running the three handlers one after another
HandlerOrders ==
  { o \in [1..3 -> {"blocker", "size", "wip"}] : \A i, j \in 1..3 : o[i] = o[j] => i = j }

HandlerRun(name) ==
  CASE name = "blocker" -> blocker
    [] name = "size" -> size
    [] name = "wip" -> wip

\* the label calls the handler decides on when it reads these labels
CallsFor(name, labels) ==
  CASE name = "blocker" -> BlockerCalls(labels, blocker.exist)
    [] name = "size" -> SizeCalls(labels, size.newLabel)
    [] name = "wip" -> WipCalls(labels, pull.wip)

\* the labels after the first k handlers of the order ran one after another
\* from the labels at the delivery, the same calls succeeding
RECURSIVE SeqLabels(_, _)
SeqLabels(order, k) ==
  IF k = 0 THEN pull.initial
  ELSE ApplyCalls(HandlerRun(order[k]).calls, SeqLabels(order, k - 1))

AllPullHandlersDone == blocker.pc = "done" /\ size.pc = "done" /\ wip.pc = "done"

\* C40: when merge-commit-blocker, size and wip run on the same pull request
\* with their label reads and label calls interleaved, the final label set
\* equals the one of running them one after another in any order: run in
\* that order each handler that read the labels would decide on the calls
\* it decided on, and the calls that succeeded leave the same labels
C40_SameAsSequential ==
  AllPullHandlersDone =>
    \A order \in HandlerOrders :
      /\ SeqLabels(order, 3) = pull.labels
      /\ \A k \in 1..3 :
           HandlerRun(order[k]).read =>
             CallsFor(order[k], SeqLabels(order, k - 1)) = HandlerRun(order[k]).plan

\* all three handlers changed a label and read different label sets
C40_Witness ==
  /\ AllPullHandlersDone
  /\ blocker.calls # <<>> /\ Len(size.calls) = 2 /\ wip.calls # <<>>
  /\ blocker.labels # size.labels
  /\ size.labels # wip.labels
  /\ blocker.labels # wip.labels

====
